---------------------------- MODULE Spec2Model ----------------------------
(***************************************************************************)
(* A model of the memoization layer of better-lyrics-api: the expiring     *)
(* cache (getCache / setCache over a sync.Map), its background sweeper     *)
(* (invalidateCache) and the compression codec of package utils            *)
(* (CompressString / DecompressString).                                    *)
(*                                                                         *)
(* Strings are sequences of bytes (0..255).  Time is the value of          *)
(* time.Now().UnixNano(), counted in abstract clock units.                 *)
(***************************************************************************)
EXTENDS Integers, Sequences, FiniteSets, TLC

(***************************************************************************)
(* Bounds of the model.                                                    *)
(***************************************************************************)
\* the clock runs from 0 to MaxTime
MaxTime == 3
\* the longest plain text the codec specification draws
MaxLen == 3
\* the sleep of the sweeper between two passes, in clock units
\* (CacheInvalidationIntervalInSeconds, scaled to the model's clock)
SweepInterval == 1
\* the clock units of a millisecond and the milliseconds of a second, where
\* getValidAccessToken converts between them (1e6 and 1000, scaled)
NanosPerMilli == 2
MillisPerSecond == 2
\* the latest accessTokenExpirationTimestampMs the token endpoint declares
MaxStamp == 4

(***************************************************************************)
(* Bytes and 32-bit words.  A 32-bit word is kept as its four bytes in     *)
(* little-endian order, the order in which gzip writes CRC-32 and ISIZE.   *)
(***************************************************************************)
RECURSIVE BitXor(_, _)
BitXor(a, b) ==
    IF a = 0 THEN b
    ELSE IF b = 0 THEN a
    ELSE (((a % 2) + (b % 2)) % 2) + 2 * BitXor(a \div 2, b \div 2)

WordXor(u, w) == [i \in 1..4 |-> BitXor(u[i], w[i])]

\* w >> 1
WordShr1(w) ==
    << (w[1] \div 2) + 128 * (w[2] % 2),
       (w[2] \div 2) + 128 * (w[3] % 2),
       (w[3] \div 2) + 128 * (w[4] % 2),
       w[4] \div 2 >>

\* w >> 8
WordShr8(w) == << w[2], w[3], w[4], 0 >>

\* n (0 <= n < 2^31) as a 32-bit little-endian word
WordOf(n) ==
    << n % 256, (n \div 256) % 256, (n \div 65536) % 256, (n \div 16777216) % 256 >>

(***************************************************************************)
(* CRC-32 (IEEE 802.3, reflected polynomial 0xEDB88320), the checksum of   *)
(* the gzip trailer.                                                       *)
(***************************************************************************)
CrcPoly == << 32, 131, 184, 237 >>

RECURSIVE CrcBits(_, _)
CrcBits(w, n) ==
    IF n = 0 THEN w
    ELSE CrcBits(IF w[1] % 2 = 1 THEN WordXor(CrcPoly, WordShr1(w)) ELSE WordShr1(w),
                 n - 1)

CrcTable == [b \in 0..255 |-> CrcBits(<< b, 0, 0, 0 >>, 8)]

RECURSIVE CrcUpdate(_, _)
CrcUpdate(crc, bytes) ==
    IF bytes = << >> THEN crc
    ELSE CrcUpdate(WordXor(CrcTable[BitXor(crc[1], Head(bytes))], WordShr8(crc)),
                   Tail(bytes))

AllOnes == << 255, 255, 255, 255 >>

Crc32(bytes) == WordXor(CrcUpdate(AllOnes, bytes), AllOnes)


(***************************************************************************)
(* gzip, as compress/gzip writes and reads it.  The writer emits one       *)
(* member: the 10-byte header (no flags, no mtime, OS unknown), the        *)
(* deflate stream, then CRC-32 and ISIZE.  For a text of at most           *)
(* MaxLiterals bytes the compressor finds no match (a match has four bytes *)
(* or more and needs as many bytes of lookahead), so the deflate stream is *)
(* one block of literals in the fixed Huffman code, not final, followed by *)
(* the empty stored block that Close writes as the final one; for the      *)
(* empty text it is that stored block alone.  The reader decodes stored    *)
(* blocks and the literals of fixed Huffman blocks; it reports length      *)
(* codes, dynamic Huffman blocks and header flags as "unmodelled", and no  *)
(* input of the model has them.                                            *)
(* A result is [s |-> the string, err |-> "nil" or the kind of error];     *)
(* every error comes with the empty string, as the Go functions return it. *)
(***************************************************************************)
Ok(str) == [s |-> str, err |-> "nil"]

Err(kind) == [s |-> << >>, err |-> kind]

GzipHeader == << 31, 139, 8, 0, 0, 0, 0, 0, 0, 255 >>

\* the longest text whose deflate stream is written here
MaxLiterals == 4

\* the bits of a byte string in the order deflate packs them: the least
\* significant bit of each byte first
Bits(data) ==
    [i \in 1..(8 * Len(data)) |->
        (data[((i - 1) \div 8) + 1] \div (2 ^ ((i - 1) % 8))) % 2]

\* the bytes of a bit string, the last byte filled up with zeros
Pack(bits) ==
    LET p == bits \o [i \in 1..((8 - (Len(bits) % 8)) % 8) |-> 0]
    IN  [j \in 1..(Len(p) \div 8) |->
            p[8 * j - 7] + 2 * p[8 * j - 6] + 4 * p[8 * j - 5] + 8 * p[8 * j - 4]
            + 16 * p[8 * j - 3] + 32 * p[8 * j - 2] + 64 * p[8 * j - 1]
            + 128 * p[8 * j]]

\* the n-bit Huffman code v, most significant bit first
CodeBits(v, n) == [i \in 1..n |-> (v \div (2 ^ (n - i))) % 2]

\* the fixed Huffman code of a literal byte
FixedCode(lit) ==
    IF lit < 144 THEN CodeBits(48 + lit, 8) ELSE CodeBits(400 + (lit - 144), 9)

RECURSIVE LiteralBits(_)
LiteralBits(data) ==
    IF data = << >> THEN << >>
    ELSE FixedCode(Head(data)) \o LiteralBits(Tail(data))

\* the deflate stream of flate.NewWriter(w, DefaultCompression) after
\* Write(data) and Close(), for Len(data) <= MaxLiterals
Deflate(data) ==
    LET block == IF data = << >> THEN << >>
                 ELSE << 0, 1, 0 >> \o LiteralBits(data) \o CodeBits(0, 7)
    IN  Pack(block \o << 1, 0, 0 >>) \o << 0, 0, 255, 255 >>

\* a writer that is not closed after the deflate stream: no trailer
GzipWriteNoTrailer(input) == GzipHeader \o Deflate(input)

\* gzip.NewWriter(&buf); Write(input); Close()
GzipWrite(input) ==
    GzipHeader \o Deflate(input) \o Crc32(input) \o WordOf(Len(input))

\* a block of the reader: the bytes it holds, the error, and the number of
\* bits read when it ends
Block(str, kind, pos) == [s |-> str, err |-> kind, pos |-> pos]

\* the byte after the first pos bits, least significant bit first
ByteAt(bits, pos) ==
    bits[pos + 1] + 2 * bits[pos + 2] + 4 * bits[pos + 3] + 8 * bits[pos + 4]
    + 16 * bits[pos + 5] + 32 * bits[pos + 6] + 64 * bits[pos + 7]
    + 128 * bits[pos + 8]

\* a stored block whose header ends after pos bits: LEN and NLEN from the
\* next byte boundary, then LEN bytes
StoredBlock(bits, pos) ==
    LET p  == ((pos + 7) \div 8) * 8
        n  == ByteAt(bits, p) + 256 * ByteAt(bits, p + 8)
        nn == ByteAt(bits, p + 16) + 256 * ByteAt(bits, p + 24)
    IN  IF p + 32 > Len(bits) THEN Block(<< >>, "unexpected EOF", p)
        ELSE IF nn # 65535 - n THEN Block(<< >>, "corrupt input", p)
        ELSE IF p + 32 + 8 * n > Len(bits) THEN Block(<< >>, "unexpected EOF", p)
        ELSE Block([i \in 1..n |-> ByteAt(bits, p + 32 + 8 * (i - 1))],
                   "nil", p + 32 + 8 * n)

\* block, when it failed; otherwise block with str before its bytes
Prepend(str, block) ==
    IF block.err # "nil" THEN block ELSE [block EXCEPT !.s = str \o block.s]

\* the symbols of a fixed Huffman block from bit pos on, up to its
\* end-of-block symbol: codes of 7 bits are the symbols 256..279, of 8 bits
\* the literals 0..143 and the symbols 280..287, of 9 bits the literals
\* 144..255
RECURSIVE FixedBlock(_, _)
FixedBlock(bits, pos) ==
    IF pos + 7 > Len(bits) THEN Block(<< >>, "unexpected EOF", pos)
    ELSE LET c7 == 64 * bits[pos + 1] + 32 * bits[pos + 2] + 16 * bits[pos + 3]
                   + 8 * bits[pos + 4] + 4 * bits[pos + 5] + 2 * bits[pos + 6]
                   + bits[pos + 7]
             long == IF c7 < 24 THEN 7 ELSE IF c7 < 100 THEN 8 ELSE 9
         IN  IF pos + long > Len(bits) THEN Block(<< >>, "unexpected EOF", pos)
             ELSE IF c7 = 0 THEN Block(<< >>, "nil", pos + 7)
             ELSE IF c7 < 24 THEN Block(<< >>, "unmodelled", pos)
             ELSE IF c7 >= 96 /\ c7 < 100
             THEN (IF 2 * c7 + bits[pos + 8] < 198
                   THEN Block(<< >>, "unmodelled", pos)
                   ELSE Block(<< >>, "corrupt input", pos))
             ELSE Prepend(<< IF c7 < 96 THEN 2 * c7 + bits[pos + 8] - 48
                             ELSE 4 * c7 + 2 * bits[pos + 8] + bits[pos + 9] - 256 >>,
                          FixedBlock(bits, pos + long))

\* the block whose header starts after pos bits
BlockAt(bits, pos) ==
    LET btype == bits[pos + 2] + 2 * bits[pos + 3]
    IN  IF btype = 0 THEN StoredBlock(bits, pos + 3)
        ELSE IF btype = 1 THEN FixedBlock(bits, pos + 3)
        ELSE IF btype = 2 THEN Block(<< >>, "unmodelled", pos)
        ELSE Block(<< >>, "corrupt input", pos)

\* the blocks from bit pos on, up to the final one
RECURSIVE InflateBlocks(_, _)
RECURSIVE BlocksAfter(_, _, _)
InflateBlocks(bits, pos) ==
    IF pos + 3 > Len(bits) THEN Block(<< >>, "unexpected EOF", pos)
    ELSE BlocksAfter(bits, bits[pos + 1], BlockAt(bits, pos))

\* block, then the blocks that follow it unless it failed or is the final one
BlocksAfter(bits, bfinal, block) ==
    IF block.err # "nil" \/ bfinal = 1 THEN block
    ELSE Prepend(block.s, InflateBlocks(bits, block.pos))

\* the result of the reader whose blocks are given: rest is what follows the
\* byte in which the final block ends
Inflated(data, blocks) ==
    IF blocks.err # "nil"
    THEN [s |-> << >>, err |-> blocks.err, rest |-> << >>]
    ELSE [s |-> blocks.s, err |-> "nil",
          rest |-> SubSeq(data, ((blocks.pos + 7) \div 8) + 1, Len(data))]

\* flate's reader on the blocks at the head of data:
\* [s |-> the inflated bytes, err, rest]
Inflate(data) == Inflated(data, InflateBlocks(Bits(data), 0))

\* str, then what the members that follow gave
Joined(str, next) == IF next.err # "nil" THEN Err(next.err) ELSE Ok(str \o next.s)

\* gzip.NewReader(buf) followed by ioutil.ReadAll: every member of data, the
\* first one required (NewReader fails with EOF on no data), the following
\* ones read until the data ends (the reader is in multistream mode)
RECURSIVE GzipRead(_, _)
RECURSIVE GzipTrailer(_)
GzipRead(data, first) ==
    IF data = << >> THEN (IF first THEN Err("EOF") ELSE Ok(<< >>))
    ELSE IF Len(data) < 10 THEN Err("unexpected EOF")
    ELSE IF data[1] # 31 \/ data[2] # 139 \/ data[3] # 8 THEN Err("invalid header")
    ELSE IF data[4] # 0 THEN Err("unmodelled")
    ELSE GzipTrailer(Inflate(SubSeq(data, 11, Len(data))))

\* the trailer of the member whose deflate stream gave body: CRC-32 and
\* ISIZE of the inflated bytes, then the next member
\* a reader that stops at the end of the deflate stream
GzipTrailerUnread(body) ==
    IF body.err # "nil" THEN Err(body.err) ELSE Ok(body.s)

GzipTrailer(body) ==
    IF body.err # "nil" THEN Err(body.err)
    ELSE IF Len(body.rest) < 8 THEN Err("unexpected EOF")
    ELSE IF \/ SubSeq(body.rest, 1, 4) # Crc32(body.s)
            \/ SubSeq(body.rest, 5, 8) # WordOf(Len(body.s))
    THEN Err("invalid checksum")
    ELSE Joined(body.s, GzipRead(SubSeq(body.rest, 9, Len(body.rest)), FALSE))

(***************************************************************************)
(* base64.StdEncoding: the standard alphabet with '=' padding.  Decoding   *)
(* skips '\r' and '\n', takes the characters four at a time, allows        *)
(* padding only in the last quantum and does not check the unused low bits *)
(* of the last character (the encoding is not Strict).                     *)
(***************************************************************************)
PadChar == 61

\* the character of the 6-bit value v
B64Char(v) ==
    IF v < 26 THEN 65 + v
    ELSE IF v < 52 THEN 97 + (v - 26)
    ELSE IF v < 62 THEN 48 + (v - 52)
    ELSE IF v = 62 THEN 43
    ELSE 47

\* the 6-bit value of character c, or -1 when c is not in the alphabet
B64Value(c) ==
    IF c >= 65 /\ c <= 90 THEN c - 65
    ELSE IF c >= 97 /\ c <= 122 THEN c - 97 + 26
    ELSE IF c >= 48 /\ c <= 57 THEN c - 48 + 52
    ELSE IF c = 43 THEN 62
    ELSE IF c = 47 THEN 63
    ELSE -1

RECURSIVE Base64Encode(_)
Base64Encode(src) ==
    IF src = << >> THEN << >>
    ELSE IF Len(src) = 1
    THEN << B64Char(src[1] \div 4), B64Char((src[1] % 4) * 16), PadChar, PadChar >>
    ELSE IF Len(src) = 2
    THEN << B64Char(src[1] \div 4),
            B64Char((src[1] % 4) * 16 + (src[2] \div 16)),
            B64Char((src[2] % 16) * 4),
            PadChar >>
    ELSE << B64Char(src[1] \div 4),
            B64Char((src[1] % 4) * 16 + (src[2] \div 16)),
            B64Char((src[2] % 16) * 4 + (src[3] \div 64)),
            B64Char(src[3] % 64) >> \o Base64Encode(SubSeq(src, 4, Len(src)))

RECURSIVE DropNewlines(_)
DropNewlines(str) ==
    IF str = << >> THEN << >>
    ELSE IF Head(str) = 10 \/ Head(str) = 13 THEN DropNewlines(Tail(str))
    ELSE << Head(str) >> \o DropNewlines(Tail(str))

\* the quanta of a string without newlines
RECURSIVE DecodeQuanta(_)
DecodeQuanta(str) ==
    IF str = << >> THEN Ok(<< >>)
    ELSE IF Len(str) < 4 THEN Err("illegal base64 data")
    ELSE LET a == B64Value(str[1])
             b == B64Value(str[2])
             c == B64Value(str[3])
             d == B64Value(str[4])
             rest == SubSeq(str, 5, Len(str))
         IN  IF a < 0 \/ b < 0 THEN Err("illegal base64 data")
             ELSE IF c >= 0 /\ d >= 0
             THEN LET more == DecodeQuanta(rest)
                  IN  IF more.err # "nil" THEN more
                      ELSE Ok(<< a * 4 + (b \div 16),
                                 (b % 16) * 16 + (c \div 4),
                                 (c % 4) * 64 + d >> \o more.s)
             ELSE IF c >= 0 /\ str[4] = PadChar /\ rest = << >>
             THEN Ok(<< a * 4 + (b \div 16), (b % 16) * 16 + (c \div 4) >>)
             ELSE IF str[3] = PadChar /\ str[4] = PadChar /\ rest = << >>
             THEN Ok(<< a * 4 + (b \div 16) >>)
             ELSE Err("illegal base64 data")

Base64Decode(str) == DecodeQuanta(DropNewlines(str))

(***************************************************************************)
(* package utils                                                           *)
(***************************************************************************)
\* neither gzipWriter.Write nor Close fails on a bytes.Buffer
CompressString(input) ==
    IF Len(input) > MaxLiterals THEN Err("unmodelled")
    ELSE Ok(Base64Encode(GzipWrite(input)))

\* gzip.NewReader and ioutil.ReadAll on what base64 decoding gave
Gunzip(data) == IF data.err # "nil" THEN Err(data.err) ELSE GzipRead(data.s, TRUE)

DecompressString(input) == Gunzip(Base64Decode(input))

(***************************************************************************)
(* The cache: a sync.Map from string keys to CacheEntry values, shared by  *)
(* the request handlers and the sweeper.  The map is a function whose      *)
(* domain is the set of keys present.                                      *)
(*                                                                         *)
(* Steps.  A step is one access to the map, together with the local work   *)
(* that precedes it.  getCache is Load with the clock read and the         *)
(* comparison that follow it, then (for an expired entry) Delete as a      *)
(* second step.  setCache is one step: it reads the clock, builds the      *)
(* entry and stores it.  A callback of the sweeper's Range is the read of  *)
(* the value with the clock read, then Delete as a second step.            *)
(***************************************************************************)
\* "a"
ValA == << 97 >>

\* the keys the handlers use, after the key conventions of getLyrics
Keys == { "track:q", "lyrics:t" }

\* the key the handlers of Spec contend for
HotKey == "lyrics:t"

\* the plain values handed to setCache: "" and "a"
Values == { << >>, ValA }

(***************************************************************************)
(* What getLyrics caches.  A track id and a query are short strings.  The  *)
(* lyrics of a track are a []Line, nil or with some lines, and a language  *)
(* code.  A JSON value is what encoding/json writes for a Go value: null,  *)
(* a boolean, a string or an array; a JSON text is written here with one   *)
(* character for each value, and the cached text of json.Marshal holds the *)
(* values of the three members in the order of their keys: isRtlLanguage,  *)
(* language, lyrics.                                                       *)
(***************************************************************************)
\* "t": a track id
TrackT == << 116 >>

\* "q": a query, url.QueryEscape(songName + " " + artistName)
QueryQ == << 113 >>

\* the characters of keys
KeyChars == (113 :> "q") @@ (116 :> "t") @@ (97 :> "a")

\* fmt.Sprintf(prefix + "%s", str)
RECURSIVE CacheKey(_, _)
CacheKey(prefix, str) ==
    IF str = << >> THEN prefix
    ELSE CacheKey(prefix \o KeyChars[Head(str)], Tail(str))

\* []Line: nil, empty, or holding a line
NilLines == [nil |-> TRUE, n |-> 0]

NoLines == [nil |-> FALSE, n |-> 0]

OneLine == [nil |-> FALSE, n |-> 1]

\* the language codes upstream lyrics come with
Languages == { "en", "ar" }

isRTLLanguage(langCode) ==
    langCode \in { "ar", "fa", "he", "ur", "ps", "sd", "ug", "yi", "ku", "dv" }

JNull == [t |-> "null", v |-> ""]

JBool(b) == [t |-> "bool", v |-> IF b THEN "true" ELSE "false"]

JString(str) == [t |-> "string", v |-> str]

\* a nil slice is written as null
JLines(lines) ==
    IF lines.nil THEN JNull
    ELSE [t |-> "array", v |-> IF lines.n = 0 THEN "[]" ELSE "[line]"]

\* the JSON values of the model and the character each is written with
JsonValues ==
    { JNull, JBool(TRUE), JBool(FALSE), JLines(NoLines), JLines(OneLine) }
    \cup { JString(lang) : lang \in Languages }

JsonChar(j) ==
    CASE j = JNull -> 110
      [] j = JBool(TRUE) -> 116
      [] j = JBool(FALSE) -> 102
      [] j = JLines(NoLines) -> 48
      [] j = JLines(OneLine) -> 49
      [] j = JString("en") -> 101
      [] j = JString("ar") -> 97

\* the value a character of a JSON text stands for, if any
JsonParse(c) ==
    IF \E j \in JsonValues : JsonChar(j) = c
    THEN [ok |-> TRUE, j |-> CHOOSE j \in JsonValues : JsonChar(j) = c]
    ELSE [ok |-> FALSE, j |-> JNull]

\* a json.Marshal that leaves the language out
MarshalNoLanguage(lyrics, isRtlLanguage, language) ==
    << JsonChar(JBool(isRtlLanguage)), JsonChar(JNull), JsonChar(JLines(lyrics)) >>

\* json.Marshal(map[string]interface{}{"lyrics": lyrics, "isRtlLanguage":
\* isRtlLanguage, "language": language})
Marshal(lyrics, isRtlLanguage, language) ==
    << JsonChar(JBool(isRtlLanguage)), JsonChar(JString(language)),
       JsonChar(JLines(lyrics)) >>

\* the nil map: every key gives nil
NilMap == [lyrics |-> JNull, isRtlLanguage |-> JNull, language |-> JNull]

\* json.Unmarshal([]byte(cachedLyrics), &cachedData), the error dropped: a
\* text that is no JSON object leaves cachedData nil
Unmarshal(text) ==
    IF Len(text) = 3 /\ \A i \in 1..3 : JsonParse(text[i]).ok
    THEN [lyrics |-> JsonParse(text[3]).j,
          isRtlLanguage |-> JsonParse(text[1]).j,
          language |-> JsonParse(text[2]).j]
    ELSE NilMap

\* the strings getLyrics hands to setCache beside the tokens: a track id, and
\* the JSON texts of lyrics that are not nil
Fetched ==
    { TrackT } \cup
    { Marshal(lines, isRTLLanguage(lang), lang) :
        lines \in { NoLines, OneLine }, lang \in Languages }

\* CompressString on the plain values, evaluated once and kept as a table
Compressed == [v \in Values \cup Fetched |-> CompressString(v)] @@ << >>

\* "invalid_base64_string"
InvalidBase64 ==
    << 105, 110, 118, 97, 108, 105, 100, 95, 98, 97, 115, 101, 54, 52, 95,
       115, 116, 114, 105, 110, 103 >>

\* str with the character at position i replaced by c
Replaced(str, i, c) == [j \in 1..Len(str) |-> IF j = i THEN c ELSE str[j]]

\* strings that are not what CompressString returns: the proper prefixes of
\* CompressString("a"), that string with one character replaced by 'A', '/',
\* '=' or '_', and the string of TestInvalidBase64Decompression; without
\* those the model of the gzip reader does not cover
Garbled ==
    LET enc == Compressed[ValA].s
        cut == { SubSeq(enc, 1, n) : n \in 0..(Len(enc) - 1) }
        hit == { Replaced(enc, i, c) : i \in 1..Len(enc), c \in { 65, 47, 61, 95 } }
    IN  { str \in (cut \cup hit \cup { InvalidBase64 }) \ { enc } :
            DecompressString(str).err # "unmodelled" }

\* DecompressString on what the cache can hold, evaluated once and kept as a
\* table
Decompressed ==
    [str \in Values \cup { Compressed[v].s : v \in Values \cup Fetched }
                \cup Garbled |->
        DecompressString(str)] @@ << >>

\* utils.CompressString(value), as setCache calls it
Compress(v) == Compressed[v]

\* utils.DecompressString(cacheEntry.Value), as getCache calls it
Decompress(str) == Decompressed[str]

\* the durations handed to setCache, in clock units
TTLs == { -1, 0, 1, 2 }

\* the goroutines serving requests
Handlers == { "h1", "h2" }

VARIABLES
    now,          \* time.Now().UnixNano()
    compression,  \* conf.FeatureFlags.CacheCompression
    cache,        \* the sync.Map
    pc,           \* where each handler is in getCache
    hkey,         \* the key of the handler's getCache in progress
    res,          \* history: the getCache whose result the last step fixed:
                  \*          its handler, its key, the (value, found) it
                  \*          returns and the return statement that gives it
    spc,          \* where the sweeper is in invalidateCache
    swake,        \* the instant the sweeper's time.Sleep ends
    skeys,        \* the keys the running Range has still to visit
    skey,         \* the key of the Range callback in progress
    lastSet,      \* history: per key, the last setCache that completed
    deleted,      \* history: per key, a Delete ran after that setCache
    sstale,       \* history: the keys that held an expired entry when the
                  \*          running pass began and were not stored to since
    sswept,       \* history: the keys the running pass has deleted
    corrupted,    \* history: the keys holding an entry that a getCache
                  \*          failed to decompress, "once" or "again"
    cin,          \* codec specification: the input string
    cout,         \* codec specification: the last result
    cpc,          \* codec specification: the step
    cacheAccessToken, \* conf.Configuration.CacheAccessToken
    dpc,          \* where getCacheDump is
    dcred,        \* the Authorization header of the last dump request
    dkeys,        \* the keys the dump's Range has still to visit
    dcache,       \* cacheDump, the map the Range callback fills
    dres,         \* the response to the last dump request
    dseen,        \* history: the contents the map had at the instants of
                  \*          the dump's Range so far, those left out that
                  \*          differ from what the dump has copied
    rconf,        \* conf.Configuration: RateLimitPerSecond and
                  \*          RateLimitBurstLimit
    rl,           \* the IPRateLimiter: its rate r and its burst b
    ips,          \* the IPRateLimiter's map from identity to limiter
    buckets,      \* the limiters created so far, with the history of their
                  \*          Allow calls
    rpc,          \* where each request is in limitMiddleware
    rid,          \* r.RemoteAddr of the request
    rlim,         \* the limiter GetLimiter or AddIP returned to it
    rok,          \* what limiter.Allow() returned to it
    rres,         \* the status of the response to the request
    rtrace,       \* history: the handlers the request was passed on to
    admitted,     \* history: per identity that is watched and per instant,
                  \*          the requests limitMiddleware passed on
    lconf,        \* conf.Configuration: TrackCacheTTLInSeconds and
                  \*          LyricsCacheTTLInSeconds
    lpc,          \* where the getLyrics request is
    lreq,         \* its query and its custom track id
    ltoken,       \* accessToken
    ltrack,       \* trackID
    lres,         \* the response to the last getLyrics request
    lup,          \* history: the upstream call the last step made and the
                  \*          reply it got
    lgot,         \* history: what each getCache of the request returned
    lcalls,       \* history: the upstream calls the request has made
    lfill,        \* history: the response of the request that stored the
                  \*          lyrics entry the map holds or held last
    tpc,          \* where the getValidAccessToken call is
    tdata,        \* its tokenData
    tsecs,        \* its expiresInSeconds
    tdecl         \* history: the accessTokenExpirationTimestampMs of the
                  \*          token the last setCache(TokenKey, ...) stored

cacheVars == << now, compression, cache, pc, hkey, res, spc, swake, skeys, skey,
                lastSet, deleted, sstale, sswept, corrupted >>

codecVars == << cin, cout, cpc >>

dumpVars == << cacheAccessToken, dpc, dcred, dkeys, dcache, dres, dseen >>

limitVars == << rconf, rl, ips, buckets, rpc, rid, rlim, rok, rres, rtrace,
               admitted >>

lyricsVars == << lconf, lpc, lreq, ltoken, ltrack, lres, lup, lgot, lcalls, lfill >>

tokenVars == << tpc, tdata, tsecs, tdecl >>

vars == << cacheVars, codecVars, dumpVars, limitVars, lyricsVars, tokenVars >>

\* the keys under which getValidAccessToken and getOauthAccessToken store
\* their tokens: configuration values, here two different keys of which the
\* first is the one the dump leaves out
TokenKey == "accessToken"

OauthTokenKey == "oauthAccessToken"

Reserved == { TokenKey, OauthTokenKey }

\* what the map m holds under the other keys
View(m) == [k \in DOMAIN m \ Reserved |-> m[k]]

\* the contents m are what the dump d holds, as far as the Range has got:
\* the keys still to visit are pending
Agrees(m, d, pending) ==
    \A k \in (DOMAIN m \cup DOMAIN d) \ pending :
        k \in DOMAIN m /\ k \in DOMAIN d /\ m[k] = d[k]

\* the contents a running dump has seen, m being what the map holds now
Watched(m) ==
    IF dpc = "range" /\ Agrees(View(m), View(dcache), dkeys)
    THEN dseen \cup { View(m) }
    ELSE dseen

\* what a step of getLyrics, with the map holding m after it, leaves alone
Outside(m) ==
    /\ dseen' = Watched(m)
    /\ UNCHANGED << cacheAccessToken, dpc, dcred, dkeys, dcache, dres >>
    /\ UNCHANGED << codecVars, limitVars >>

Aside(m) == Outside(m) /\ UNCHANGED tokenVars

\* what a step of the cache, whose map holds m after it, leaves alone
Beside(m) == Aside(m) /\ UNCHANGED lyricsVars

\* no setCache completed; of a completed one: the value, the duration, the
\* clock it read, and of the entry its Store replaced: the value (pv) and
\* whether that entry was due "sooner" than the new one, at the "same" time
\* or "later" (over; "none" when the key held no entry)
NoSet == [v |-> << >>, ttl |-> 0, t |-> 0, done |-> FALSE,
          pv |-> << >>, over |-> "none"]

\* the last step fixed no result
NoResult == [h |-> "", key |-> "", value |-> << >>, found |-> FALSE, ret |-> "none"]

\* the result of handler h's getCache(key), r being the (value, found) it
\* returns and the return statement taken
Result(h, key, r) ==
    [h |-> h, key |-> key, value |-> r.value, found |-> r.found, ret |-> r.ret]

\* return "", false
Miss(ret) == [value |-> << >>, found |-> FALSE, ret |-> ret]

\* return value, true
Hit(value) == [value |-> value, found |-> TRUE, ret |-> "hit"]

\* sync.Map.Load
Loaded(m, k) == k \in DOMAIN m

\* sync.Map.LoadOrStore in the place of Store: a key that is present keeps
\* its entry
StoreIfAbsent(m, k, e) ==
    [x \in DOMAIN m \cup {k} |-> IF x \in DOMAIN m THEN m[x] ELSE e]

\* sync.Map.Store
Store(m, k, e) == [x \in DOMAIN m \cup {k} |-> IF x = k THEN e ELSE m[x]]

\* a Delete that takes every key with it
DeleteAll(m, k) == << >>

\* sync.Map.Delete
Delete(m, k) == [x \in DOMAIN m \ {k} |-> m[x]]

\* a comparison that lets an entry live one instant longer
ExpiredLate(t, e) == t > e.Expiration + 1

\* time.Now().UnixNano() > cacheEntry.Expiration
Expired(t, e) == t > e.Expiration

\* an entry that ignores the duration
NewEntryNoTTL(stored, t, duration) == [Value |-> stored, Expiration |-> t]

\* an entry that takes the duration without its sign
NewEntryAbs(stored, t, duration) ==
    [Value |-> stored,
     Expiration |-> t + (IF duration < 0 THEN 0 - duration ELSE duration)]

\* an entry stored by reference: &CacheEntry{...}
NewEntryPtr(stored, t, duration) ==
    [ptr |-> [Value |-> stored, Expiration |-> t + duration]]

\* the CacheEntry setCache builds: Expiration is time.Now().Add(duration)
NewEntry(stored, t, duration) == [Value |-> stored, Expiration |-> t + duration]

\* a getCache that hands out the stored string when it cannot decompress it
LookupRaw(flag, e) ==
    IF flag /\ Decompress(e.Value).err = "nil"
    THEN Hit(Decompress(e.Value).s)
    ELSE [value |-> e.Value, found |-> TRUE,
          ret |-> IF flag THEN "corrupt" ELSE "hit"]

\* a getCache that returns the empty string for what it decompressed
UnpackedEmpty(d) == IF d.err # "nil" THEN Miss("corrupt") ELSE Hit(<< >>)

\* what getCache returns for the result d of DecompressString
Unpacked(d) == IF d.err # "nil" THEN Miss("corrupt") ELSE Hit(d.s)

\* the (value, found) getCache returns for an entry that has not expired, and
\* the return statement taken
Lookup(flag, e) == IF flag THEN Unpacked(Decompress(e.Value)) ELSE Hit(e.Value)

CacheInit ==
    /\ now = 0
    /\ compression \in BOOLEAN
    /\ cache = << >>
    /\ pc = [h \in Handlers |-> "idle"]
    /\ hkey = [h \in Handlers |-> ""]
    /\ res = NoResult
    /\ spc = "sleep"
    /\ swake = SweepInterval
    /\ skeys = {}
    /\ skey = ""
    /\ lastSet = [k \in Keys |-> NoSet]
    /\ deleted = [k \in Keys |-> FALSE]
    /\ sstale = {}
    /\ sswept = {}
    /\ corrupted = << >>

CodecIdle ==
    /\ cin = << >>
    /\ cout = Ok(<< >>)
    /\ cpc = "off"

\* no dump request was made
NoResponse ==
    [status |-> 0, text |-> "", NumberOfKeys |-> 0, SizeInKB |-> 0, Cache |-> << >>]

DumpIdle ==
    /\ cacheAccessToken = ""
    /\ dpc = "off"
    /\ dcred = ""
    /\ dkeys = {}
    /\ dcache = << >>
    /\ dres = NoResponse
    /\ dseen = {}

Clients == { "c1", "c2" }

LimitIdle ==
    /\ rconf = [RateLimitPerSecond |-> 0, RateLimitBurstLimit |-> 0]
    /\ rl = [r |-> 0, b |-> 0]
    /\ ips = << >>
    /\ buckets = << >>
    /\ rpc = [c \in Clients |-> "off"]
    /\ rid = [c \in Clients |-> ""]
    /\ rlim = [c \in Clients |-> 0]
    /\ rok = [c \in Clients |-> "none"]
    /\ rres = [c \in Clients |-> 0]
    /\ rtrace = [c \in Clients |-> << >>]
    /\ admitted = << >>

\* no getLyrics request is served
NoReply == [net |-> FALSE, status |-> 0, json |-> FALSE]

NoCall == [call |-> "none", reply |-> NoReply, empty |-> FALSE]

NoRequest == [query |-> << >>, trackId |-> << >>]

NoLyrics ==
    [status |-> 0, from |-> "none", trackId |-> << >>, lyrics |-> JNull,
     isRtlLanguage |-> JNull, language |-> JNull]

NoneGot == [token |-> "none", track |-> "none", oauth |-> "none", lyrics |-> "none"]

LyricsIdle ==
    /\ lconf = [TrackCacheTTLInSeconds |-> 0, LyricsCacheTTLInSeconds |-> 0]
    /\ lpc = "off"
    /\ lreq = NoRequest
    /\ ltoken = << >>
    /\ ltrack = << >>
    /\ lres = NoLyrics
    /\ lup = NoCall
    /\ lgot = NoneGot
    /\ lcalls = {}
    /\ lfill = NoLyrics

\* TokenData, its zero value
NoTokenData == [accessToken |-> << >>, accessTokenExpirationTimestampMs |-> 0]

TokenIdle ==
    /\ tpc = "off"
    /\ tdata = NoTokenData
    /\ tsecs = 0
    /\ tdecl = 0

Init == CacheInit /\ CodecIdle /\ DumpIdle /\ LimitIdle /\ LyricsIdle /\ TokenIdle

\* the clock advances
Tick ==
    /\ now < MaxTime
    /\ now' = now + 1
    /\ res' = NoResult
    /\ UNCHANGED << compression, cache, pc, hkey, spc, swake, skeys, skey,
                    lastSet, deleted, sstale, sswept, corrupted >>
    /\ Beside(cache')

(***************************************************************************)
(* getCache(key).  The result is fixed by the first step; the call is over *)
(* when the handler is idle again.                                         *)
(***************************************************************************)
\* the history of failures after one more getCache failed to decompress the
\* entry of k
Failed(k) ==
    [x \in DOMAIN corrupted \cup {k} |->
        IF x # k THEN corrupted[x]
        ELSE IF k \in DOMAIN corrupted THEN "again" ELSE "once"]

\* the history of failures once the entry of k is replaced or removed
Cleared(k) == [x \in DOMAIN corrupted \ {k} |-> corrupted[x]]

\* the (value, found) getCache(k) returns on the map m at clock t, and the
\* return statement taken
Got(m, k, t, flag) ==
    IF ~Loaded(m, k) THEN Miss("absent")
    ELSE IF Expired(t, m[k]) THEN Miss("expired")
    ELSE Lookup(flag, m[k])

\* a getCache that deletes the entry it cannot decompress as well
DeletesCorrupt(ret) == ret \in { "expired", "corrupt" }

\* the return statements getCache reaches through cache.Delete(key)
Deletes(ret) == ret = "expired"

\* the step of getCache on the variables of the cache
GetCacheLoad(h, k) ==
    /\ pc[h] = "idle"
    /\ res' = Result(h, k, Got(cache, k, now, compression))
    /\ IF Deletes(res'.ret)
       THEN /\ pc' = [pc EXCEPT ![h] = "get_delete"]
            /\ hkey' = [hkey EXCEPT ![h] = k]
       ELSE UNCHANGED << pc, hkey >>
    /\ corrupted' = IF res'.ret = "corrupt" THEN Failed(k) ELSE corrupted
    /\ UNCHANGED << now, compression, cache, spc, swake, skeys, skey,
                    lastSet, deleted, sstale, sswept >>

GetLoad(h, k) == GetCacheLoad(h, k) /\ Beside(cache')

GetCacheDelete(h) ==
    /\ pc[h] = "get_delete"
    /\ cache' = Delete(cache, hkey[h])
    /\ deleted' = [deleted EXCEPT ![hkey[h]] = TRUE]
    /\ corrupted' = Cleared(hkey[h])
    /\ pc' = [pc EXCEPT ![h] = "idle"]
    /\ hkey' = [hkey EXCEPT ![h] = ""]
    /\ res' = NoResult
    /\ UNCHANGED << now, compression, spc, swake, skeys, skey, lastSet,
                    sstale, sswept >>

GetDelete(h) == GetCacheDelete(h) /\ Beside(cache')

(***************************************************************************)
(* setCache(key, value, duration)                                          *)
(***************************************************************************)
SetCacheStore(h, k, v, duration) ==
    /\ pc[h] = "idle"
    /\ LET c == IF compression THEN Compress(v) ELSE Ok(v)
           due == lastSet[k].t + lastSet[k].ttl
           held == lastSet[k].done /\ ~deleted[k]
       IN  IF c.err # "nil"
           THEN UNCHANGED << cache, lastSet, deleted, sstale, corrupted >>
           ELSE /\ cache' = Store(cache, k, NewEntry(c.s, now, duration))
                /\ lastSet' = [lastSet EXCEPT ![k] =
                                 [v |-> v, ttl |-> duration, t |-> now, done |-> TRUE,
                                  pv |-> IF held THEN lastSet[k].v ELSE << >>,
                                  over |-> IF ~held THEN "none"
                                           ELSE IF due < now + duration THEN "sooner"
                                           ELSE IF due = now + duration THEN "same"
                                           ELSE "later"]]
                /\ deleted' = [deleted EXCEPT ![k] = FALSE]
                /\ sstale' = sstale \ {k}
                /\ corrupted' = Cleared(k)
    /\ res' = NoResult
    /\ UNCHANGED << now, compression, pc, hkey, spc, swake, skeys, skey, sswept >>

SetCache(h, k, v, duration) == SetCacheStore(h, k, v, duration) /\ Beside(cache')

(***************************************************************************)
(* invalidateCache: sleep, then Range over the map; the callback reads the *)
(* clock and deletes the key of an entry it finds expired.  Range visits   *)
(* the keys present when it starts, in any order, and hands the callback   *)
(* the value the key has when it is visited.                               *)
(***************************************************************************)
SweepWake ==
    /\ spc = "sleep"
    /\ now >= swake
    /\ spc' = "range"
    /\ skeys' = DOMAIN cache
    /\ sstale' = { k \in DOMAIN cache : now > cache[k].Expiration }
    /\ res' = NoResult
    /\ UNCHANGED << now, compression, cache, pc, hkey, swake, skey,
                    lastSet, deleted, sswept, corrupted >>
    /\ Beside(cache')

\* a callback that returns false after the first key: Range stops there
SweepVisitOnce(k) ==
    /\ spc = "range"
    /\ k \in skeys
    /\ skeys' = {}
    /\ IF Loaded(cache, k) /\ Expired(now, cache[k])
       THEN /\ spc' = "delete"
            /\ skey' = k
       ELSE UNCHANGED << spc, skey >>
    /\ res' = NoResult
    /\ UNCHANGED << now, compression, cache, pc, hkey, swake,
                    lastSet, deleted, sstale, sswept, corrupted >>
    /\ Beside(cache')

SweepVisit(k) ==
    /\ spc = "range"
    /\ k \in skeys
    /\ skeys' = skeys \ {k}
    /\ IF Loaded(cache, k) /\ Expired(now, cache[k])
       THEN /\ spc' = "delete"
            /\ skey' = k
       ELSE UNCHANGED << spc, skey >>
    /\ res' = NoResult
    /\ UNCHANGED << now, compression, cache, pc, hkey, swake,
                    lastSet, deleted, sstale, sswept, corrupted >>
    /\ Beside(cache')

SweepDelete ==
    /\ spc = "delete"
    /\ cache' = Delete(cache, skey)
    /\ deleted' = [deleted EXCEPT ![skey] = TRUE]
    /\ sswept' = sswept \cup { skey }
    /\ corrupted' = Cleared(skey)
    /\ spc' = "range"
    /\ skey' = ""
    /\ res' = NoResult
    /\ UNCHANGED << now, compression, pc, hkey, swake, skeys, lastSet, sstale >>
    /\ Beside(cache')

SweepSleep ==
    /\ spc = "range"
    /\ skeys = {}
    /\ spc' = "sleep"
    /\ swake' = now + SweepInterval
    /\ sstale' = {}
    /\ sswept' = {}
    /\ res' = NoResult
    /\ UNCHANGED << now, compression, cache, pc, hkey, skeys, skey,
                    lastSet, deleted, corrupted >>
    /\ Beside(cache')

\* the calls handler h makes on the keys of K, with the values of V and the
\* durations of D
Handler(h, K, V, D) ==
    \/ \E k \in K : GetLoad(h, k)
    \/ GetDelete(h)
    \/ \E k \in K, v \in V, d \in D : SetCache(h, k, v, d)

Sweeper ==
    \/ SweepWake
    \/ \E k \in skeys : SweepVisit(k)
    \/ SweepDelete
    \/ SweepSleep

\* the handlers contend for one key, beside the sweeper
Next ==
    \/ Tick
    \/ \E h \in Handlers : Handler(h, { HotKey }, Values, TTLs)
    \/ Sweeper

Spec == Init /\ [][Next]_vars

\* one handler works on all the keys, beside the sweeper
NextKeys ==
    \/ Tick
    \/ Handler("h1", Keys, { ValA }, { 0, 1 })
    \/ Sweeper

SpecKeys == Init /\ [][NextKeys]_vars

(***************************************************************************)
(* The map holding one entry that setCache did not write: cache is a       *)
(* package variable, and getCache decompresses whatever string the entry   *)
(* it loads holds.  One handler then works on that key, beside the sweeper.*)
(***************************************************************************)
InitStored ==
    /\ now = 0
    /\ compression = TRUE
    /\ \E str \in Garbled, e \in 0..MaxTime :
          cache = Store(<< >>, HotKey, [Value |-> str, Expiration |-> e])
    /\ pc = [h \in Handlers |-> "idle"]
    /\ hkey = [h \in Handlers |-> ""]
    /\ res = NoResult
    /\ spc = "sleep"
    /\ swake = SweepInterval
    /\ skeys = {}
    /\ skey = ""
    /\ lastSet = [k \in Keys |-> NoSet]
    /\ deleted = [k \in Keys |-> FALSE]
    /\ sstale = {}
    /\ sswept = {}
    /\ corrupted = << >>
    /\ CodecIdle
    /\ DumpIdle
    /\ LimitIdle
    /\ LyricsIdle
    /\ TokenIdle

NextStored ==
    \/ Tick
    \/ Handler("h1", { HotKey }, { ValA }, { 1 })
    \/ Sweeper

SpecStored == InitStored /\ [][NextStored]_vars

(***************************************************************************)
(* The codec alone: CompressString applied to a text, DecompressString to  *)
(* what it returned, and DecompressString applied to any string.           *)
(***************************************************************************)
\* NUL, "a" and 0xFF
Alphabet == { 0, 97, 255 }

\* the strings over Alphabet of length at most n
RECURSIVE TextsUpTo(_)
TextsUpTo(n) ==
    IF n = 0 THEN { << >> }
    ELSE LET shorter == TextsUpTo(n - 1)
         IN  shorter \cup { << c >> \o str : c \in Alphabet, str \in shorter }

Texts == TextsUpTo(MaxLen)

CacheIdle ==
    /\ now = 0
    /\ compression = TRUE
    /\ cache = << >>
    /\ pc = [h \in Handlers |-> "idle"]
    /\ hkey = [h \in Handlers |-> ""]
    /\ res = NoResult
    /\ spc = "sleep"
    /\ swake = SweepInterval
    /\ skeys = {}
    /\ skey = ""
    /\ lastSet = [k \in Keys |-> NoSet]
    /\ deleted = [k \in Keys |-> FALSE]
    /\ sstale = {}
    /\ sswept = {}
    /\ corrupted = << >>

InitCodec ==
    /\ CacheIdle
    /\ DumpIdle
    /\ LimitIdle
    /\ LyricsIdle
    /\ TokenIdle
    /\ cin \in Texts \cup Garbled
    /\ cout = Ok(<< >>)
    /\ cpc = "start"

\* compressed, err := CompressString(text)
CodecCompress ==
    /\ cpc = "start"
    /\ cin \in Texts
    /\ cout' = CompressString(cin)
    /\ cpc' = "compressed"
    /\ UNCHANGED << cin, cacheVars, dumpVars, limitVars, lyricsVars, tokenVars >>

\* decompressed, err := DecompressString(compressed)
CodecDecompress ==
    /\ cpc = "compressed"
    /\ cout.err = "nil"
    /\ cout' = DecompressString(cout.s)
    /\ cpc' = "decompressed"
    /\ UNCHANGED << cin, cacheVars, dumpVars, limitVars, lyricsVars, tokenVars >>

\* _, err := DecompressString(input)
CodecDecode ==
    /\ cpc = "start"
    /\ cout' = DecompressString(cin)
    /\ cpc' = "decoded"
    /\ UNCHANGED << cin, cacheVars, dumpVars, limitVars, lyricsVars, tokenVars >>

NextCodec ==
    \/ CodecCompress
    \/ CodecDecompress
    \/ CodecDecode

SpecCodec == InitCodec /\ [][NextCodec]_vars

(***************************************************************************)
(* getCacheDump: the handler of /cache.  It compares the Authorization     *)
(* header with the configured token, then Ranges over the map, copying     *)
(* every entry but that of the key "accessToken" into cacheDump, and       *)
(* encodes the response.  As for the sweeper, Range visits the keys        *)
(* present when it starts, one callback at a time, and hands the callback  *)
(* the value the key has when it is visited; the handlers and the sweeper  *)
(* run between the callbacks.                                              *)
(***************************************************************************)
DumpKeys == Keys \cup Reserved

\* the values of the Authorization header, "" being a request without one
Credentials == { "", "secret", "invalid_token" }

\* the values of CACHE_ACCESS_TOKEN, "" being the default
AccessTokens == { "", "secret" }

\* r.Header.Get("Authorization") != conf.Configuration.CacheAccessToken
AuthorizedIfSent(cred, token) == cred # ""

\* a check that refuses every request while no token is configured
AuthorizedConfigured(cred, token) == token # "" /\ cred = token

Authorized(cred, token) == cred = token

\* http.Error(w, "Unauthorized", http.StatusUnauthorized)
Unauthorized ==
    [status |-> 401, text |-> "Unauthorized", NumberOfKeys |-> 0, SizeInKB |-> 0,
     Cache |-> << >>]

\* if key == "accessToken" { return true }
Skipped(k) == k = "accessToken"

\* size += len(key) + len(value.Value) + 8, over the keys ks of d
RECURSIVE DumpSize(_, _)
DumpSize(d, ks) ==
    IF ks = {} THEN 0
    ELSE LET k == CHOOSE x \in ks : TRUE
         IN  Len(k) + Len(d[k].Value) + 8 + DumpSize(d, ks \ {k})

\* the CacheDumpResponse of cacheDump d, answered with status 200
DumpResponse(d) ==
    [status |-> 200, text |-> "", NumberOfKeys |-> Cardinality(DOMAIN d),
     SizeInKB |-> DumpSize(d, DOMAIN d) \div 1024, Cache |-> d]

\* the check of the header; an authorized request starts its Range
GetCacheDump(cred) ==
    /\ dpc = "idle"
    /\ dcred' = cred
    /\ IF ~Authorized(cred, cacheAccessToken)
       THEN /\ dres' = Unauthorized
            /\ UNCHANGED << dpc, dkeys, dcache, dseen >>
       ELSE /\ dpc' = "range"
            /\ dkeys' = DOMAIN cache
            /\ dcache' = << >>
            /\ dres' = NoResponse
            /\ dseen' = { View(cache) }
    /\ res' = NoResult
    /\ UNCHANGED << now, compression, cache, pc, hkey, spc, swake, skeys, skey,
                    lastSet, deleted, sstale, sswept, corrupted >>
    /\ UNCHANGED << cacheAccessToken, codecVars, limitVars, lyricsVars, tokenVars >>

\* one callback of the Range
DumpVisit(k) ==
    /\ dpc = "range"
    /\ k \in dkeys
    /\ dkeys' = dkeys \ {k}
    /\ dcache' = IF Loaded(cache, k) /\ ~Skipped(k) THEN Store(dcache, k, cache[k])
                 ELSE dcache
    /\ dseen' = { m \in dseen : Agrees(m, View(dcache'), dkeys') }
    /\ res' = NoResult
    /\ UNCHANGED << now, compression, cache, pc, hkey, spc, swake, skeys, skey,
                    lastSet, deleted, sstale, sswept, corrupted >>
    /\ UNCHANGED << cacheAccessToken, dpc, dcred, dres, codecVars, limitVars, lyricsVars, tokenVars >>

\* json.NewEncoder(w).Encode(cacheDumpResponse)
DumpEncode ==
    /\ dpc = "range"
    /\ dkeys = {}
    /\ dres' = DumpResponse(dcache)
    /\ dpc' = "idle"
    /\ res' = NoResult
    /\ UNCHANGED << now, compression, cache, pc, hkey, spc, swake, skeys, skey,
                    lastSet, deleted, sstale, sswept, corrupted >>
    /\ UNCHANGED << cacheAccessToken, dcred, dkeys, dcache, dseen, codecVars, limitVars, lyricsVars, tokenVars >>

Dumper ==
    \/ \E cred \in Credentials : GetCacheDump(cred)
    \/ \E k \in dkeys : DumpVisit(k)
    \/ DumpEncode

\* the server with /cache: no request was made yet
InitDump ==
    /\ now = 0
    /\ compression = TRUE
    /\ cache = << >>
    /\ pc = [h \in Handlers |-> "idle"]
    /\ hkey = [h \in Handlers |-> ""]
    /\ res = NoResult
    /\ spc = "sleep"
    /\ swake = SweepInterval
    /\ skeys = {}
    /\ skey = ""
    /\ lastSet = [k \in DumpKeys |-> NoSet]
    /\ deleted = [k \in DumpKeys |-> FALSE]
    /\ sstale = {}
    /\ sswept = {}
    /\ corrupted = << >>
    /\ CodecIdle
    /\ cacheAccessToken \in AccessTokens
    /\ dpc = "idle"
    /\ dcred = ""
    /\ dkeys = {}
    /\ dcache = << >>
    /\ dres = NoResponse
    /\ dseen = {}
    /\ LimitIdle
    /\ LyricsIdle
    /\ TokenIdle

\* one handler reads and stores lyrics and tokens, beside the dump
NextDump ==
    \/ \E k \in DumpKeys : GetLoad("h1", k)
    \/ \E v \in Values : SetCache("h1", HotKey, v, 1)
    \/ \E k \in DumpKeys \ { HotKey } : SetCache("h1", k, ValA, 1)
    \/ Dumper

SpecDump == InitDump /\ [][NextDump]_vars

\* the clock, a handler, the sweeper and the dump, all on one key
NextAll ==
    \/ Tick
    \/ Handler("h1", { HotKey }, { ValA }, { 1 })
    \/ Sweeper
    \/ Dumper

SpecAll == InitDump /\ [][NextAll]_vars

(***************************************************************************)
(* The rate limiter.  main makes one IPRateLimiter from the configuration  *)
(* and wraps the handlers in limitMiddleware, which asks it for the        *)
(* limiter of the request's RemoteAddr and calls Allow on it.  The         *)
(* IPRateLimiter keeps one token bucket per identity.  A rate is a number  *)
(* of tokens per second; the clock counts TicksPerSecond instants to the   *)
(* second, and a bucket counts its tokens in units of which                *)
(* TicksPerSecond make one token, so that it gains rate units per instant. *)
(* GetLimiter, AddIP and Allow are one step each: each runs under a mutex. *)
(***************************************************************************)
TicksPerSecond == 2

Identities == { "ip1", "ip2" }

\* the values of RATE_LIMIT_PER_SECOND
Rates == { 1, 2 }

\* the values of RATE_LIMIT_BURST_LIMIT
Bursts == { 1, 2 }

\* the Allow calls counted on one limiter: a count of MaxAllows stands for
\* that many or more, and for calls that were not back to back
MaxAllows == 3

Min(a, b) == IF a < b THEN a ELSE b

NewIPRateLimiter(r, b) == [r |-> r, b |-> b]

\* a limiter that starts without tokens
NewLimiterEmpty(r, b, t) ==
    [r |-> r, b |-> b, tokens |-> 0, last |-> t, row |-> 0, denied |-> FALSE]

\* a token bucket of rate r and capacity b made at instant t: it is full.
\* History: the number of its Allow calls so far if they were all made at
\* one instant (row), and whether the last one was denied (its instant is
\* last)
NewLimiter(r, b, t) ==
    [r |-> r, b |-> b, tokens |-> b * TicksPerSecond, last |-> t, row |-> 0,
     denied |-> FALSE]

\* the calls made on lim back to back, one more made at instant t
InRow(lim, t) ==
    IF lim.row = 0 THEN 1
    ELSE IF lim.last = t THEN Min(lim.row + 1, MaxAllows)
    ELSE MaxAllows

\* a refill without the cap
TokensUncapped(lim, t) == lim.tokens + (t - lim.last) * lim.r

\* the tokens of lim at instant t: those it had at its last refill and
\* elapsed * rate more, capped at its capacity
Tokens(lim, t) ==
    Min(lim.b * TicksPerSecond, lim.tokens + (t - lim.last) * lim.r)

\* an Allow that admits on any fraction of a token
HasTokenPart(lim, t) == Tokens(lim, t) > 0

\* lim has a token at instant t
HasToken(lim, t) == Tokens(lim, t) >= TicksPerSecond

\* an Allow that leaves nothing in the bucket when it denies
AllowedDrained(lim, t) ==
    IF HasToken(lim, t)
    THEN [lim EXCEPT !.tokens = Tokens(lim, t) - TicksPerSecond, !.last = t]
    ELSE [lim EXCEPT !.tokens = 0, !.last = t]

\* lim after Allow at instant t: refilled, and one token less if it had one
Allowed(lim, t) ==
    IF HasToken(lim, t)
    THEN [lim EXCEPT !.tokens = Tokens(lim, t) - TicksPerSecond, !.last = t]
    ELSE [lim EXCEPT !.tokens = Tokens(lim, t), !.last = t]

\* the Allow call at instant t, which turned lim into after
Logged(lim, after, t) ==
    [after EXCEPT !.row = InRow(lim, t),
                  !.denied = ~HasToken(lim, t)]

\* AddIP(id): a new limiter at the IPRateLimiter's rate and burst, put in
\* the map under id; m is the map, bs the limiters made so far
AddIP(m, bs, irl, id, t) ==
    [ips |-> Store(m, id, Len(bs) + 1),
     buckets |-> Append(bs, NewLimiter(irl.r, irl.b, t)),
     limiter |-> Len(bs) + 1]

\* a GetLimiter that makes a limiter at every call
GetLimiterAnew(m, bs, irl, id, t) == AddIP(m, bs, irl, id, t)

\* GetLimiter(id): the limiter of id, made by AddIP when the map has none
GetLimiter(m, bs, irl, id, t) ==
    IF Loaded(m, id) THEN [ips |-> m, buckets |-> bs, limiter |-> m[id]]
    ELSE AddIP(m, bs, irl, id, t)

\* the handlers a request goes through after limitMiddleware
Chain == << "cors", "logging", "router" >>

\* a limitMiddleware that goes on after it has answered 429
PassedAlways(ok) == TRUE

\* a limitMiddleware with the test the other way round: if limiter.Allow()
PassedNot(ok) == ~ok

\* if !limiter.Allow() { ...; return }
Passed(ok) == ok

\* a request from id arrives
LimitEnter(c, id) ==
    /\ rpc[c] = "idle"
    /\ rpc' = [rpc EXCEPT ![c] = "get"]
    /\ rid' = [rid EXCEPT ![c] = id]
    /\ rlim' = [rlim EXCEPT ![c] = 0]
    /\ rok' = [rok EXCEPT ![c] = "none"]
    /\ rres' = [rres EXCEPT ![c] = 0]
    /\ rtrace' = [rtrace EXCEPT ![c] = << >>]
    /\ UNCHANGED << rconf, rl, ips, buckets, admitted, cacheVars, codecVars, dumpVars, lyricsVars, tokenVars >>

\* a limitMiddleware that calls Allow on the first limiter made, whatever
\* GetLimiter returned
RegisteredFirst(c, got) ==
    /\ ips' = got.ips
    /\ buckets' = got.buckets
    /\ rlim' = [rlim EXCEPT ![c] = 1]

\* what GetLimiter or AddIP returned to c: the map, the limiters and c's
\* limiter
Registered(c, got) ==
    /\ ips' = got.ips
    /\ buckets' = got.buckets
    /\ rlim' = [rlim EXCEPT ![c] = got.limiter]

\* the host of a RemoteAddr: the two of Identities are two source ports of
\* one host
HostOf == [remoteAddr \in Identities |-> "ip"]

\* a limitMiddleware that looks the limiter up by the host alone
LimiterKeyHost(remoteAddr) == HostOf[remoteAddr]

\* the identity handed to GetLimiter: r.RemoteAddr, as it is
LimiterKey(remoteAddr) == remoteAddr

\* limiter := limiter.GetLimiter(r.RemoteAddr)
LimitGet(c) ==
    /\ rpc[c] = "get"
    /\ Registered(c, GetLimiter(ips, buckets, rl, LimiterKey(rid[c]), now))
    /\ rpc' = [rpc EXCEPT ![c] = "allow"]
    /\ UNCHANGED << rconf, rl, rid, rok, rres, rtrace, admitted, cacheVars, codecVars,
                    dumpVars, lyricsVars, tokenVars >>

\* the history of the requests passed on, after one more of identity id
\* was or was not passed on at instant t
Admitted(id, passed, t) ==
    IF passed /\ id \in DOMAIN admitted
    THEN [admitted EXCEPT ![id][t] = @ + 1]
    ELSE admitted

\* what the Allow of request c, with result ok, leaves
Answered(c, ok) ==
    /\ rok' = [rok EXCEPT ![c] = IF ok THEN "true" ELSE "false"]
    /\ rres' = [rres EXCEPT ![c] = IF ok THEN 0 ELSE 429]
    /\ rpc' = [rpc EXCEPT ![c] = IF Passed(ok) THEN "next" ELSE "idle"]
    /\ admitted' = Admitted(rid[c], Passed(ok), now)

\* if !limiter.Allow() { http.Error(w, ..., 429); return }
LimitAllow(c) ==
    /\ rpc[c] = "allow"
    /\ buckets' = [buckets EXCEPT ![rlim[c]] =
                      Logged(buckets[rlim[c]], Allowed(buckets[rlim[c]], now), now)]
    /\ Answered(c, HasToken(buckets[rlim[c]], now))
    /\ UNCHANGED << rconf, rl, ips, rid, rlim, rtrace, cacheVars, codecVars, dumpVars, lyricsVars, tokenVars >>

\* next.ServeHTTP(w, r): the request goes through the handlers of Chain,
\* whose status is that of the response unless one was written before
LimitNext(c) ==
    /\ rpc[c] = "next"
    /\ rtrace' = [rtrace EXCEPT ![c] = rtrace[c] \o Chain]
    /\ rres' = [rres EXCEPT ![c] = IF rres[c] = 0 THEN 200 ELSE rres[c]]
    /\ rpc' = [rpc EXCEPT ![c] = "idle"]
    /\ UNCHANGED << rconf, rl, ips, buckets, rid, rlim, rok, admitted, cacheVars,
                    codecVars, dumpVars, lyricsVars, tokenVars >>

\* limiter := rl.AddIP(id), for an identity the map does not hold
CallAddIP(c, id) ==
    /\ rpc[c] = "idle"
    /\ ~Loaded(ips, id)
    /\ Registered(c, AddIP(ips, buckets, rl, id, now))
    /\ rid' = [rid EXCEPT ![c] = id]
    /\ rok' = [rok EXCEPT ![c] = "none"]
    /\ rres' = [rres EXCEPT ![c] = 0]
    /\ rtrace' = [rtrace EXCEPT ![c] = << >>]
    /\ UNCHANGED << rconf, rl, rpc, admitted, cacheVars, codecVars, dumpVars, lyricsVars, tokenVars >>

\* the server after limiter := middleware.NewIPRateLimiter(...)
LimitStart ==
    /\ CacheIdle
    /\ CodecIdle
    /\ DumpIdle
    /\ LyricsIdle
    /\ TokenIdle
    /\ rconf \in [RateLimitPerSecond : Rates, RateLimitBurstLimit : Bursts]
    /\ rl = NewIPRateLimiter(rconf.RateLimitPerSecond, rconf.RateLimitBurstLimit)
    /\ ips = << >>
    /\ buckets = << >>
    /\ rpc = [c \in Clients |-> "idle"]
    /\ rid = [c \in Clients |-> ""]
    /\ rlim = [c \in Clients |-> 0]
    /\ rok = [c \in Clients |-> "none"]
    /\ rres = [c \in Clients |-> 0]
    /\ rtrace = [c \in Clients |-> << >>]

InitLimit == LimitStart /\ admitted = << >>

Request(c) ==
    \/ \E id \in Identities : LimitEnter(c, id)
    \/ LimitGet(c)
    \/ LimitAllow(c)
    \/ LimitNext(c)
    \/ \E id \in Identities : CallAddIP(c, id)

NextLimit ==
    \/ Tick
    \/ \E c \in Clients : Request(c)

SpecLimit == InitLimit /\ [][NextLimit]_vars

\* the identity whose requests are recorded
HotIdentity == "ip1"

\* the same server, with the requests of one identity recorded
InitAdmit ==
    /\ LimitStart
    /\ admitted = [id \in { HotIdentity } |-> [t \in 0..MaxTime |-> 0]]

\* concurrent requests, all from that identity
NextAdmit ==
    \/ Tick
    \/ \E c \in Clients :
          \/ LimitEnter(c, HotIdentity)
          \/ LimitGet(c)
          \/ LimitAllow(c)
          \/ LimitNext(c)

SpecAdmit == InitAdmit /\ [][NextAdmit]_vars

(***************************************************************************)
(* getLyrics.  One goroutine serves one request after the other.  A step   *)
(* of the request is one access to the map with the local work that        *)
(* precedes it: an upstream call and the setCache of what it returned are  *)
(* one step, and so are an upstream call that fails and the error response *)
(* written for it.  An upstream endpoint answers what it likes: the reply  *)
(* is a transport error, or a status with a body that is JSON or is not.   *)
(* A reply of another status than 200 with a JSON body carries an error    *)
(* object, which decodes to the zero value of the struct it is read into.  *)
(***************************************************************************)
LyricsHandler == "h1"

\* the values of TRACK_CACHE_TTL_IN_SECONDS, in clock units
TrackTTLs == { 1 }

\* the values of LYRICS_CACHE_TTL_IN_SECONDS, in clock units
LyricsTTLs == { 2 }

\* the requests: with a song name, with a track id, and with neither
Requests ==
    { [query |-> QueryQ, trackId |-> << >>],
      [query |-> << >>, trackId |-> TrackT],
      NoRequest }

\* the replies of an endpoint whose decoded body has the zero value zero
\* and, for status 200, one of bodies
Replies(zero, bodies) ==
    { [net |-> FALSE, status |-> 0, json |-> FALSE, body |-> zero] }
    \cup { [net |-> TRUE, status |-> st, json |-> FALSE, body |-> zero] :
             st \in { 200, 502 } }
    \cup { [net |-> TRUE, status |-> 400, json |-> TRUE, body |-> zero] }
    \cup { [net |-> TRUE, status |-> 200, json |-> TRUE, body |-> b] : b \in bodies }

\* TokenData
TokenReplies(t) ==
    Replies([accessToken |-> << >>, accessTokenExpirationTimestampMs |-> 0],
            { [accessToken |-> ValA, accessTokenExpirationTimestampMs |-> t + 1] })

\* TokenResponse
OauthReplies ==
    Replies([access_token |-> << >>, expires_in |-> 0],
            { [access_token |-> ValA, expires_in |-> 1] })

\* TrackResponse
SearchReplies ==
    Replies([items |-> << >>], { [items |-> << >>], [items |-> << TrackT >>] })

\* LyricsResponse
LyricsReplies ==
    Replies([lines |-> NilLines, language |-> ""],
            { [lines |-> l, language |-> lang] :
                l \in { NilLines, NoLines, OneLine }, lang \in Languages })

\* makeHTTPRequest returns the body: no transport error and status 200
MakeHTTPRequest(reply) == reply.net /\ reply.status = 200

\* client.Do and ioutil.ReadAll of getOauthAccessToken return the body
ClientDo(reply) == reply.net

\* the upstream call of the last step: the endpoint, the reply, and whether
\* the reply held no result (no track id, nil lyrics)
Call(name, reply, empty) ==
    [call |-> name,
     reply |-> [net |-> reply.net, status |-> reply.status, json |-> reply.json],
     empty |-> empty]

\* http.Error(w, ..., status)
Problem(status) == [NoLyrics EXCEPT !.status = status, !.from = "error"]

\* the response written from the cached text
CachedResponse(trackID, cachedData) ==
    [status |-> 200, from |-> "hit", trackId |-> trackID,
     lyrics |-> cachedData.lyrics,
     isRtlLanguage |-> cachedData.isRtlLanguage,
     language |-> cachedData.language]

\* the response written from what fetchLyrics returned
FetchedResponse(trackID, lyrics, isRtlLanguage, language) ==
    [status |-> 200, from |-> "miss", trackId |-> trackID,
     lyrics |-> JLines(lyrics),
     isRtlLanguage |-> JBool(isRtlLanguage),
     language |-> JString(language)]

\* a getLyrics that searches for the track whatever the cache returned
SearchesAlways(found) == TRUE

\* fetchTrackID is called: the track id was not found in the cache
Searches(found) == ~found

\* a step of the request that does not touch the map
CacheStill ==
    /\ pc[LyricsHandler] = "idle"
    /\ res' = NoResult
    /\ UNCHANGED << now, compression, cache, pc, hkey, spc, swake, skeys, skey,
                    lastSet, deleted, sstale, sswept, corrupted >>

\* neither a song or artist name nor a track id: 422
LyricsReject(req) ==
    /\ lpc = "idle"
    /\ req.query = << >> /\ req.trackId = << >>
    /\ CacheStill
    /\ lreq' = req
    /\ lres' = Problem(422)
    /\ lup' = NoCall
    /\ lgot' = NoneGot
    /\ lcalls' = {}
    /\ ltoken' = << >>
    /\ ltrack' = << >>
    /\ UNCHANGED << lconf, lpc, lfill >>
    /\ Aside(cache')

\* getValidAccessToken: getCache(TokenKey)
LyricsBegin(req) ==
    /\ lpc = "idle"
    /\ ~(req.query = << >> /\ req.trackId = << >>)
    /\ GetCacheLoad(LyricsHandler, TokenKey)
    /\ lreq' = req
    /\ lres' = NoLyrics
    /\ lup' = NoCall
    /\ lgot' = [NoneGot EXCEPT !.token = res'.ret]
    /\ lcalls' = {}
    /\ ltoken' = res'.value
    /\ ltrack' = << >>
    /\ lpc' = IF res'.found THEN "track" ELSE "token"
    /\ UNCHANGED << lconf, lfill >>
    /\ Aside(cache')

\* the cache.Delete(key) of a getCache of the request
LyricsDelete ==
    /\ lpc \notin { "off", "idle" }
    /\ GetCacheDelete(LyricsHandler)
    /\ lup' = NoCall
    /\ UNCHANGED << lconf, lpc, lreq, ltoken, ltrack, lres, lgot, lcalls, lfill >>
    /\ Aside(cache')

\* getValidAccessToken: the token endpoint, then setCache(TokenKey, ...)
TokenFetch(reply) ==
    /\ lpc = "token"
    /\ lup' = Call("token", reply, FALSE)
    /\ lcalls' = lcalls \cup { "token" }
    /\ IF ~(MakeHTTPRequest(reply) /\ reply.json)
       THEN /\ CacheStill
            /\ lres' = Problem(500)
            /\ lpc' = "idle"
            /\ UNCHANGED ltoken
       ELSE /\ SetCacheStore(LyricsHandler, TokenKey, reply.body.accessToken,
                             reply.body.accessTokenExpirationTimestampMs - now)
            /\ ltoken' = reply.body.accessToken
            /\ lpc' = "track"
            /\ UNCHANGED lres
    /\ UNCHANGED << lconf, lreq, ltrack, lgot, lfill >>
    /\ Aside(cache')

\* the track id: the custom one, or getCache("track:" + query)
LyricsTrack ==
    /\ lpc = "track"
    /\ IF lreq.trackId # << >>
       THEN /\ CacheStill
            /\ ltrack' = lreq.trackId
            /\ lpc' = "lyrics"
            /\ UNCHANGED lgot
       ELSE /\ GetCacheLoad(LyricsHandler, CacheKey("track:", lreq.query))
            /\ lgot' = [lgot EXCEPT !.track = res'.ret]
            /\ ltrack' = res'.value
            /\ lpc' = IF Searches(res'.found) THEN "oauth" ELSE "lyrics"
    /\ lup' = NoCall
    /\ UNCHANGED << lconf, lreq, ltoken, lres, lcalls, lfill >>
    /\ Aside(cache')

\* fetchTrackID, getOauthAccessToken: getCache(OauthTokenKey)
OauthGet ==
    /\ lpc = "oauth"
    /\ GetCacheLoad(LyricsHandler, OauthTokenKey)
    /\ lgot' = [lgot EXCEPT !.oauth = res'.ret]
    /\ lpc' = IF res'.found THEN "search" ELSE "oauth_fetch"
    /\ lup' = NoCall
    /\ UNCHANGED << lconf, lreq, ltoken, ltrack, lres, lcalls, lfill >>
    /\ Aside(cache')

\* getOauthAccessToken: the token endpoint, then setCache(OauthTokenKey,
\* ...); the status of the reply is not looked at
OauthFetch(reply) ==
    /\ lpc = "oauth_fetch"
    /\ lup' = Call("oauth", reply, FALSE)
    /\ lcalls' = lcalls \cup { "oauth" }
    /\ IF ~(ClientDo(reply) /\ reply.json)
       THEN /\ CacheStill
            /\ lres' = Problem(500)
            /\ lpc' = "idle"
       ELSE /\ SetCacheStore(LyricsHandler, OauthTokenKey, reply.body.access_token,
                             reply.body.expires_in)
            /\ lpc' = "search"
            /\ UNCHANGED lres
    /\ UNCHANGED << lconf, lreq, ltoken, ltrack, lgot, lfill >>
    /\ Aside(cache')

\* trackResp.Tracks.Items[0].ID, or "" when there is no item
FirstID(items) == IF Len(items) > 0 THEN items[1] ELSE << >>

\* fetchTrackID: the search endpoint, then setCache("track:" + query, ...)
TrackSearch(reply) ==
    /\ lpc = "search"
    /\ lup' = Call("search", reply, FirstID(reply.body.items) = << >>)
    /\ lcalls' = lcalls \cup { "search" }
    /\ IF ~(MakeHTTPRequest(reply) /\ reply.json)
       THEN /\ CacheStill
            /\ lres' = Problem(500)
            /\ lpc' = "idle"
            /\ UNCHANGED ltrack
       ELSE IF FirstID(reply.body.items) = << >>
       THEN /\ CacheStill
            /\ lres' = Problem(404)
            /\ lpc' = "idle"
            /\ ltrack' = << >>
       ELSE /\ SetCacheStore(LyricsHandler, CacheKey("track:", lreq.query),
                             FirstID(reply.body.items), lconf.TrackCacheTTLInSeconds)
            /\ ltrack' = FirstID(reply.body.items)
            /\ lpc' = "lyrics"
            /\ UNCHANGED lres
    /\ UNCHANGED << lconf, lreq, ltoken, lgot, lfill >>
    /\ Aside(cache')

\* getCache("lyrics:" + trackID), and the response on a hit
LyricsLookup ==
    /\ lpc = "lyrics"
    /\ GetCacheLoad(LyricsHandler, CacheKey("lyrics:", ltrack))
    /\ lgot' = [lgot EXCEPT !.lyrics = res'.ret]
    /\ IF res'.found
       THEN /\ lres' = CachedResponse(ltrack, Unmarshal(res'.value))
            /\ lpc' = "idle"
       ELSE /\ lpc' = "fetch"
            /\ UNCHANGED lres
    /\ lup' = NoCall
    /\ UNCHANGED << lconf, lreq, ltoken, ltrack, lcalls, lfill >>
    /\ Aside(cache')

\* fetchLyrics: the lyrics endpoint, then setCache("lyrics:" + trackID, ...)
\* and the response
LyricsFetch(reply) ==
    /\ lpc = "fetch"
    /\ lup' = Call("lyrics", reply, reply.body.lines.nil)
    /\ lcalls' = lcalls \cup { "lyrics" }
    /\ lpc' = "idle"
    /\ IF ~(MakeHTTPRequest(reply) /\ reply.json)
       THEN /\ CacheStill
            /\ lres' = Problem(500)
            /\ UNCHANGED lfill
       ELSE IF reply.body.lines.nil
       THEN /\ CacheStill
            /\ lres' = Problem(404)
            /\ UNCHANGED lfill
       ELSE /\ SetCacheStore(LyricsHandler, CacheKey("lyrics:", ltrack),
                             Marshal(reply.body.lines,
                                     isRTLLanguage(reply.body.language),
                                     reply.body.language),
                             lconf.LyricsCacheTTLInSeconds)
            /\ lres' = FetchedResponse(ltrack, reply.body.lines,
                                       isRTLLanguage(reply.body.language),
                                       reply.body.language)
            /\ lfill' = lres'
    /\ UNCHANGED << lconf, lreq, ltoken, ltrack, lgot >>
    /\ Aside(cache')

GetLyrics ==
    \/ \E req \in Requests : LyricsReject(req)
    \/ \E req \in Requests : LyricsBegin(req)
    \/ LyricsDelete
    \/ \E reply \in TokenReplies(now) : TokenFetch(reply)
    \/ LyricsTrack
    \/ OauthGet
    \/ \E reply \in OauthReplies : OauthFetch(reply)
    \/ \E reply \in SearchReplies : TrackSearch(reply)
    \/ LyricsLookup
    \/ \E reply \in LyricsReplies : LyricsFetch(reply)

\* the server with /getLyrics: no request was made yet
InitLyrics ==
    /\ now = 0
    /\ compression \in BOOLEAN
    /\ cache = << >>
    /\ pc = [h \in Handlers |-> "idle"]
    /\ hkey = [h \in Handlers |-> ""]
    /\ res = NoResult
    /\ spc = "sleep"
    /\ swake = SweepInterval
    /\ skeys = {}
    /\ skey = ""
    /\ lastSet = [k \in DumpKeys |-> NoSet]
    /\ deleted = [k \in DumpKeys |-> FALSE]
    /\ sstale = {}
    /\ sswept = {}
    /\ corrupted = << >>
    /\ CodecIdle
    /\ DumpIdle
    /\ LimitIdle
    /\ lconf \in [TrackCacheTTLInSeconds : TrackTTLs,
                  LyricsCacheTTLInSeconds : LyricsTTLs]
    /\ lpc = "idle"
    /\ lreq = NoRequest
    /\ ltoken = << >>
    /\ ltrack = << >>
    /\ lres = NoLyrics
    /\ lup = NoCall
    /\ lgot = NoneGot
    /\ lcalls = {}
    /\ lfill = NoLyrics
    /\ TokenIdle

NextLyrics ==
    \/ Tick
    \/ GetLyrics

SpecLyrics == InitLyrics /\ [][NextLyrics]_vars

(***************************************************************************)
(* getValidAccessToken with the units of its arithmetic.  The clock counts *)
(* nanoseconds, the token endpoint declares the expiry in milliseconds,    *)
(* and the duration handed to setCache is a whole number of seconds; here  *)
(* a millisecond is NanosPerMilli clock units and a second MillisPerSecond *)
(* milliseconds.  The function reads the clock when it computes            *)
(* expiresInSeconds, and setCache reads it again: the clock may advance    *)
(* between the two.                                                        *)
(***************************************************************************)
\* Go's x / y on integers, y > 0: the quotient truncated toward zero
Quo(x, y) == IF x >= 0 THEN x \div y ELSE 0 - ((0 - x) \div y)

\* time.Now().UnixNano()/int64(time.Millisecond)
UnixMilli(t) == Quo(t, NanosPerMilli)

\* expiresInSeconds
ExpiresInSeconds(stampMs, t) == Quo(stampMs - UnixMilli(t), MillisPerSecond)

\* time.Duration(expiresInSeconds)*time.Second, in clock units
Seconds(n) == n * MillisPerSecond * NanosPerMilli

\* the instant a timestamp in milliseconds names, in clock units
StampInstant(stampMs) == stampMs * NanosPerMilli

\* the replies of the token endpoint, with any expiry up to MaxStamp
TokenDataReplies ==
    Replies(NoTokenData,
            { [accessToken |-> ValA, accessTokenExpirationTimestampMs |-> e] :
                e \in 0..MaxStamp })

\* getCache(TokenKey)
TokenGet ==
    /\ tpc = "idle"
    /\ GetCacheLoad(LyricsHandler, TokenKey)
    /\ tpc' = IF res'.found THEN "idle" ELSE "fetch"
    /\ UNCHANGED << tdata, tsecs, tdecl >>
    /\ Outside(cache') /\ UNCHANGED lyricsVars

\* the cache.Delete(key) of that getCache
TokenDelete ==
    /\ tpc = "fetch"
    /\ GetCacheDelete(LyricsHandler)
    /\ UNCHANGED << tpc, tdata, tsecs, tdecl >>
    /\ Outside(cache') /\ UNCHANGED lyricsVars

\* makeHTTPRequest, json.Unmarshal and expiresInSeconds
TokenRead(reply) ==
    /\ tpc = "fetch"
    /\ CacheStill
    /\ IF ~(MakeHTTPRequest(reply) /\ reply.json)
       THEN /\ tpc' = "idle"
            /\ UNCHANGED << tdata, tsecs >>
       ELSE /\ tpc' = "store"
            /\ tdata' = reply.body
            /\ tsecs' = ExpiresInSeconds(reply.body.accessTokenExpirationTimestampMs, now)
    /\ UNCHANGED tdecl
    /\ Outside(cache') /\ UNCHANGED lyricsVars

\* setCache(TokenKey, tokenData.AccessToken, ...)
TokenStore ==
    /\ tpc = "store"
    /\ SetCacheStore(LyricsHandler, TokenKey, tdata.accessToken, Seconds(tsecs))
    /\ tpc' = "idle"
    /\ tdecl' = tdata.accessTokenExpirationTimestampMs
    /\ UNCHANGED << tdata, tsecs >>
    /\ Outside(cache') /\ UNCHANGED lyricsVars

GetValidAccessToken ==
    \/ TokenGet
    \/ TokenDelete
    \/ \E reply \in TokenDataReplies : TokenRead(reply)
    \/ TokenStore

\* the server before any call of getValidAccessToken
InitToken ==
    /\ now = 0
    /\ compression \in BOOLEAN
    /\ cache = << >>
    /\ pc = [h \in Handlers |-> "idle"]
    /\ hkey = [h \in Handlers |-> ""]
    /\ res = NoResult
    /\ spc = "sleep"
    /\ swake = SweepInterval
    /\ skeys = {}
    /\ skey = ""
    /\ lastSet = [k \in DumpKeys |-> NoSet]
    /\ deleted = [k \in DumpKeys |-> FALSE]
    /\ sstale = {}
    /\ sswept = {}
    /\ corrupted = << >>
    /\ CodecIdle
    /\ DumpIdle
    /\ LimitIdle
    /\ LyricsIdle
    /\ tpc = "idle"
    /\ tdata = NoTokenData
    /\ tsecs = 0
    /\ tdecl = 0

NextToken ==
    \/ Tick
    \/ GetValidAccessToken

SpecToken == InitToken /\ [][NextToken]_vars

(***************************************************************************)
(* Properties.  res holds the result of a getCache in the state its first  *)
(* step leaves: there now is the clock that getCache read, cache the map   *)
(* it loaded from, and lastSet and deleted tell what happened to its key   *)
(* before it.                                                              *)
(***************************************************************************)
\* a getCache has just fixed its result, and a setCache on its key completed
\* before it
GotAfterSet == res.ret # "none" /\ lastSet[res.key].done

\* the instant at which the duration of the last setCache on k has elapsed
Due(k) == lastSet[k].t + lastSet[k].ttl

\* C1: after setCache(k, v, ttl) with ttl > 0 and no other operation on k
\* since (no later setCache, no Delete), a getCache(k) made before ttl has
\* elapsed returns (v, true) and a getCache(k) made after it has elapsed
\* returns found = false.
C1_SetThenGet ==
    (GotAfterSet /\ lastSet[res.key].ttl > 0 /\ ~deleted[res.key]) =>
        /\ (now < Due(res.key) => res.found /\ res.value = lastSet[res.key].v)
        /\ (now > Due(res.key) => ~res.found)

\* a compressed "a" stored for two instants and read back after one
C1_Witness ==
    /\ GotAfterSet
    /\ compression
    /\ ~deleted[res.key]
    /\ lastSet[res.key].v = ValA
    /\ lastSet[res.key].ttl = 2
    /\ now = lastSet[res.key].t + 1
    /\ res.found
    /\ res.value = ValA

C3_Overwrite ==
    \A k \in Keys :
        (lastSet[k].done /\ lastSet[k].over # "none" /\ ~deleted[k]) =>
            /\ Loaded(cache, k)
            /\ cache[k].Expiration = Due(k)
            /\ (res.ret # "none" /\ res.key = k) =>
                  /\ (res.found => res.value = lastSet[k].v)
                  /\ (now < Due(k) => res.found)

\* "a" stored over an entry of "" that was due later, and read back
C3_Witness ==
    /\ GotAfterSet
    /\ ~deleted[res.key]
    /\ lastSet[res.key].over = "later"
    /\ lastSet[res.key].pv = << >>
    /\ lastSet[res.key].v = ValA
    /\ res.found
    /\ res.value = ValA

C5_SetVisible ==
    (GotAfterSet /\ lastSet[res.key].ttl > 0 /\ now < Due(res.key)) =>
        res.found /\ res.value = lastSet[res.key].v

\* C6 as stated: the Delete of a sweeper pass never removes an entry that
\* has not expired.
C6_FreshNeverSwept ==
    [][(spc = "delete" /\ spc' = "range" /\ Loaded(cache, skey)
           /\ ~(now > cache[skey].Expiration))
       => (Loaded(cache', skey) /\ cache'[skey] = cache[skey])]_vars

\* C7: a key that held an expired entry when a sweeper pass began, and was
\* not stored to since, is absent from the map once the pass has visited it:
\* at the end of the pass none of them is left, without any getCache.
C7_SweptByPass ==
    \A k \in sstale :
        (k \notin skeys /\ ~(spc = "delete" /\ skey = k)) => ~Loaded(cache, k)

\* every key stored with duration 0, and the pass has emptied the map
C7_Witness ==
    /\ spc = "range"
    /\ skeys = {}
    /\ sstale = Keys
    /\ sswept = Keys
    /\ \A k \in Keys : lastSet[k].done /\ lastSet[k].ttl = 0
    /\ cache = << >>

\* C8: the first step of getCache leaves the map as it is, and goes on to
\* Delete exactly when it found the entry of its key expired, returning
\* found = false; that Delete removes the key and nothing else.
C8_GetFrame ==
    [][/\ (res'.ret # "none") =>
             /\ cache' = cache
             /\ (pc'[res'.h] = "get_delete") = (res'.ret = "expired")
             /\ (res'.ret = "expired") =>
                   /\ Loaded(cache, res'.key)
                   /\ now > cache[res'.key].Expiration
                   /\ hkey'[res'.h] = res'.key
                   /\ ~res'.found
       /\ \A h \in Handlers :
             (pc[h] = "get_delete" /\ pc'[h] = "idle") =>
                 /\ DOMAIN cache' = DOMAIN cache \ { hkey[h] }
                 /\ \A x \in DOMAIN cache' : cache'[x] = cache[x]
      ]_vars

\* before the first pass of the sweeper, getCache has removed the expired
\* entry of one key and the other key still holds its entry
C8_Witness ==
    /\ spc = "sleep"
    /\ swake = SweepInterval
    /\ \E k \in Keys :
          /\ deleted[k]
          /\ ~Loaded(cache, k)
          /\ \E x \in Keys \ {k} :
                /\ Loaded(cache, x)
                /\ ~deleted[x]
                /\ cache[x].Expiration = Due(x)

\* C9: with compression on, a getCache that loads an entry which has not
\* expired and whose stored string DecompressString rejects returns
\* ("", false).
C9_CorruptIsMiss ==
    (/\ res.ret # "none"
     /\ compression
     /\ Loaded(cache, res.key)
     /\ ~(now > cache[res.key].Expiration)
     /\ DecompressString(cache[res.key].Value).err # "nil")
    => (res.value = << >> /\ ~res.found)

\* a getCache that met valid base64 holding a gzip stream cut short
C9_Witness ==
    /\ res.ret = "corrupt"
    /\ ~res.found
    /\ Loaded(cache, res.key)
    /\ now <= cache[res.key].Expiration
    /\ Base64Decode(cache[res.key].Value).err = "nil"
    /\ DecompressString(cache[res.key].Value).err = "unexpected EOF"

\* C10: CompressString succeeds on every text, and DecompressString gives
\* the text back from what it returned.
C10_RoundTrip ==
    /\ cpc = "compressed" => cout.err = "nil"
    /\ cpc = "decompressed" => cout = Ok(cin)

\* the round trip of the empty string
C10_Witness ==
    /\ cpc = "decompressed"
    /\ cin = << >>
    /\ cout = Ok(<< >>)

\* p is s cut short
CutShort(p, s) == Len(p) < Len(s) /\ p = SubSeq(s, 1, Len(p))

\* str is no base64 text of a gzip stream: a plain text, the string of the
\* test, or what CompressString returned with its end missing
NotEncoded(str) ==
    \/ str \in Texts
    \/ str = InvalidBase64
    \/ \E v \in Values : CutShort(str, Compress(v).s)

\* the bytes data are framed as a gzip member of text: magic and method at
\* the front, CRC-32 and length of text at the end
Framed(data, text) ==
    /\ data.err = "nil"
    /\ Len(data.s) >= 18
    /\ SubSeq(data.s, 1, 3) = SubSeq(GzipHeader, 1, 3)
    /\ SubSeq(data.s, Len(data.s) - 7, Len(data.s) - 4) = Crc32(text)
    /\ SubSeq(data.s, Len(data.s) - 3, Len(data.s)) = WordOf(Len(text))

\* C11: DecompressString returns an error, and with it the empty string, on
\* every input that is not the base64 text of a gzip stream; what it returns
\* without an error is never cut short: its input then decodes to bytes that
\* end with the CRC-32 and the length of the string returned.
C11_InvalidRejected ==
    cpc = "decoded" =>
        /\ NotEncoded(cin) => cout.err # "nil"
        /\ cout.err # "nil" => cout.s = << >>
        /\ cout.err = "nil" => Framed(Base64Decode(cin), cout.s)

\* the encoding of "a" without its last four characters: valid base64 of a
\* gzip stream whose trailer is incomplete
C11_Witness ==
    /\ cpc = "decoded"
    /\ CutShort(cin, Compress(ValA).s)
    /\ Len(cin) = Len(Compress(ValA).s) - 4
    /\ Base64Decode(cin).err = "nil"
    /\ cout = Err("unexpected EOF")

\* a step that answers or admits a dump request
DumpRequest == dpc = "idle" /\ << dpc, dcred, dres >>' # << dpc, dcred, dres >>

\* C12: a dump request whose Authorization header differs from the
\* configured token is answered 401 with a body that holds nothing of the
\* cache (the same for every cache), leaves the map as it is and starts no
\* Range; a request with the configured token starts the Range and is
\* answered 200, the map being left as it is.
C12_Unauthorized ==
    [][/\ DumpRequest =>
             /\ cache' = cache
             /\ IF dcred' # cacheAccessToken
                THEN dres' = Unauthorized /\ dpc' = "idle" /\ dcache' = dcache
                ELSE dres' = NoResponse /\ dpc' = "range"
       /\ (dpc = "range" /\ dpc' = "idle") =>
             /\ cache' = cache
             /\ dcred = cacheAccessToken
             /\ dres'.status = 200
      ]_vars

\* "invalid_token" presented where "secret" is configured, the map holding
\* lyrics and both tokens
C12_Witness ==
    /\ cacheAccessToken = "secret"
    /\ dcred = "invalid_token"
    /\ dres = Unauthorized
    /\ dpc = "idle"
    /\ DOMAIN cache = DumpKeys

\* C13 as stated: the Cache of a dump answered 200 holds no entry under
\* TokenKey and none under OauthTokenKey.
C13_ReservedHidden ==
    dres.status = 200 => DOMAIN dres.Cache \cap Reserved = {}

\* C14 as stated: the entries of a dump answered 200 are, the reserved keys
\* apart, the contents the map had at one instant between the start of the
\* call and its end.
C14_PointInTime ==
    dres.status = 200 => View(dres.Cache) \in dseen

\* request c's limiter.Allow() returns in this step
Called(c) == rpc[c] = "allow" /\ rpc'[c] # "allow"

\* the Allow calls made on lim before instant t, if they were all made at t
\* and fewer than MaxAllows; MaxAllows otherwise
BackToBack(lim, t) ==
    IF lim.row = 0 THEN 0
    ELSE IF lim.last = t THEN lim.row
    ELSE MaxAllows

\* C15: on a limiter of burst b and rate r that no one called before, the
\* first b Allow calls made back to back return true and the next one made
\* at the same instant returns false; an Allow made 1/r seconds or more
\* after one that returned false returns true.
C15_TokenBucket ==
    [][\A c \in Clients :
          Called(c) =>
             /\ BackToBack(buckets[rlim[c]], now) < buckets[rlim[c]].b
                   => rok'[c] = "true"
             /\ BackToBack(buckets[rlim[c]], now) = buckets[rlim[c]].b
                   => rok'[c] = "false"
             /\ (/\ buckets[rlim[c]].denied
                 /\ (now - buckets[rlim[c]].last) * buckets[rlim[c]].r >= TicksPerSecond)
                   => rok'[c] = "true"
      ]_vars

\* burst 2 at one token per second: two requests admitted and a third one
\* denied at instant 0, the next one admitted a second later
C15_Witness ==
    /\ rl = [r |-> 1, b |-> 2]
    /\ now = TicksPerSecond
    /\ rid["c1"] = rid["c2"]
    /\ rok["c1"] = "false"
    /\ rok["c2"] = "true"
    /\ rpc["c2"] = "next"
    /\ buckets[rlim["c2"]].last = now
    /\ buckets[rlim["c2"]].tokens = 0
    /\ buckets[rlim["c2"]].row = MaxAllows
    /\ ~buckets[rlim["c2"]].denied

C17_Construction ==
    [][/\ rl.r = rconf.RateLimitPerSecond
       /\ rl.b = rconf.RateLimitBurstLimit
       /\ \A c \in Clients :
             (rlim'[c] # rlim[c] /\ rlim'[c] # 0 /\ ~Loaded(ips, rid'[c])) =>
                 /\ rlim'[c] \notin DOMAIN buckets
                 /\ rlim'[c] \in DOMAIN buckets'
                 /\ Loaded(ips', rid'[c])
                 /\ ips'[rid'[c]] = rlim'[c]
                 /\ buckets'[rlim'[c]].r = rl.r
                 /\ buckets'[rlim'[c]].b = rl.b
                 /\ buckets'[rlim'[c]].tokens = rl.b * TicksPerSecond
                 /\ buckets'[rlim'[c]].last = now
                 /\ \A x \in DOMAIN ips : ips'[x] = ips[x]
      ]_vars

\* AddIP has returned the second limiter of an IPRateLimiter of rate 1 and
\* burst 2
C17_Witness ==
    /\ rl = [r |-> 1, b |-> 2]
    /\ rpc["c1"] = "idle"
    /\ rok["c1"] = "none"
    /\ rlim["c1"] = 2
    /\ rid["c1"] = "ip2"
    /\ ips = Store(Store(<< >>, "ip1", 1), "ip2", 2)
    /\ buckets[2] = NewLimiter(1, 2, now)

\* C18: Allow adds elapsed * rate tokens to those the bucket had, up to its
\* capacity; if that makes a token it takes one and returns true, and if not
\* it returns false and leaves the bucket what it has added up.
C18_RefillAndTake ==
    [][\A c \in Clients :
          Called(c) =>
             /\ buckets'[rlim[c]].last = now
             /\ IF Min(buckets[rlim[c]].b * TicksPerSecond,
                       buckets[rlim[c]].tokens
                          + (now - buckets[rlim[c]].last) * buckets[rlim[c]].r)
                     >= TicksPerSecond
                THEN /\ rok'[c] = "true"
                     /\ buckets'[rlim[c]].tokens =
                           Min(buckets[rlim[c]].b * TicksPerSecond,
                               buckets[rlim[c]].tokens
                                  + (now - buckets[rlim[c]].last) * buckets[rlim[c]].r)
                              - TicksPerSecond
                ELSE /\ rok'[c] = "false"
                     /\ buckets'[rlim[c]].tokens =
                           Min(buckets[rlim[c]].b * TicksPerSecond,
                               buckets[rlim[c]].tokens
                                  + (now - buckets[rlim[c]].last) * buckets[rlim[c]].r)
      ]_vars

\* a request denied by a bucket that had gained a part of a token, which it
\* keeps
C18_Witness ==
    \E c \in Clients :
        /\ rok[c] = "false"
        /\ rpc[c] = "idle"
        /\ buckets[rlim[c]].denied
        /\ buckets[rlim[c]].last = now
        /\ buckets[rlim[c]].tokens > 0
        /\ buckets[rlim[c]].tokens < TicksPerSecond

\* C19: a request reaches no handler before limiter.Allow() has returned
\* for it; when Allow returns false the request is answered 429 and is
\* passed on to no handler; when Allow returns true it is passed on to the
\* wrapped handlers once.
C19_DeniedStopsHere ==
    \A c \in Clients :
        /\ rok[c] = "none" => rtrace[c] = << >> /\ rres[c] = 0
        /\ rok[c] = "false" =>
              rres[c] = 429 /\ rtrace[c] = << >> /\ rpc[c] = "idle"
        /\ rok[c] = "true" =>
              \/ rpc[c] = "next" /\ rtrace[c] = << >> /\ rres[c] = 0
              \/ rpc[c] = "idle" /\ rtrace[c] = Chain /\ rres[c] = 200

\* of two requests of one identity, one was answered 429 and the other went
\* through the handlers
C19_Witness ==
    /\ rid["c1"] = rid["c2"]
    /\ rok["c1"] = "false"
    /\ rres["c1"] = 429
    /\ rtrace["c1"] = << >>
    /\ rok["c2"] = "true"
    /\ rres["c2"] = 200
    /\ rtrace["c2"] = Chain

\* e is a CacheEntry: a struct of a string and an int64
IsCacheEntry(e) ==
    /\ DOMAIN e = { "Value", "Expiration" }
    /\ e.Value \in Seq(0..255)
    /\ e.Expiration \in Int

\* C20: whatever getCache, setCache, getCacheDump and invalidateCache have
\* done, every key of the map is a string and every value a CacheEntry, as
\* is every entry of cacheDump: none of the type assertions entry.(CacheEntry),
\* value.(CacheEntry) and key.(string) can fail.
C20_Typed ==
    /\ \A k \in DOMAIN cache : k \in STRING /\ IsCacheEntry(cache[k])
    /\ \A k \in DOMAIN dcache : k \in STRING /\ IsCacheEntry(dcache[k])

\* an entry was stored, copied into a dump and, once expired, deleted; the
\* sweeper is in a pass
C20_Witness ==
    /\ lastSet[HotKey].done
    /\ dres.status = 200
    /\ Loaded(dres.Cache, HotKey)
    /\ deleted[HotKey]
    /\ ~Loaded(cache, HotKey)
    /\ spc = "range"


\* C28 as stated: the Delete of getCache's lazy expiration removes only the
\* stale entry getCache loaded: an entry that has not expired, stored by a
\* setCache between the Load and the Delete, stays in the map.
C28_GetKeepsFresh ==
    [][\A h \in Handlers :
          (/\ pc[h] = "get_delete"
           /\ pc'[h] = "idle"
           /\ Loaded(cache, hkey[h])
           /\ ~(now > cache[hkey[h]].Expiration))
          => (/\ Loaded(cache', hkey[h])
              /\ cache'[hkey[h]] = cache[hkey[h]])]_vars

\* C29: a getCache that fails to decompress the entry it loaded leaves the
\* map as it is and goes on to no Delete, and as long as that entry is
\* neither overwritten nor removed every later getCache of the key returns
\* found = false as well.
C29_CorruptStays ==
    [][/\ (res'.ret = "corrupt") =>
             /\ cache' = cache
             /\ pc'[res'.h] = "idle"
             /\ ~res'.found
       /\ (res'.ret # "none" /\ res'.key \in DOMAIN corrupted) =>
             /\ Loaded(cache, res'.key)
             /\ ~res'.found
      ]_vars

\* the entry has failed to decompress in two getCache calls, the clock has
\* advanced, and the entry is still in the map
C29_Witness ==
    /\ res.ret = "corrupt"
    /\ res.key \in DOMAIN corrupted
    /\ corrupted[res.key] = "again"
    /\ now > 0
    /\ Loaded(cache, res.key)
    /\ ~lastSet[res.key].done
    /\ ~deleted[res.key]

\* C24 as stated: every entry a successful getCacheDump returns has its
\* expiration still ahead at the time of the dump: an entry the Range
\* callback copies into cacheDump has not expired at the instant it is copied.
C24_DumpFresh ==
    [][(dpc = "range" /\ dpc' = "range") =>
          \A k \in DOMAIN dcache' \ DOMAIN dcache :
              ~(now > dcache'[k].Expiration)]_vars

\* the map the setCache calls and the Deletes made so far leave when
\* CacheCompression is off: per key the entry of the last setCache, unless a
\* Delete ran after it
Plain ==
    [k \in { x \in DOMAIN lastSet : lastSet[x].done /\ ~deleted[x] } |->
        [Value |-> lastSet[k].v, Expiration |-> lastSet[k].t + lastSet[k].ttl]]

\* C22: compression is transparent: the map holds the same keys with the
\* same expirations as the same calls leave with CacheCompression off, only
\* the stored strings differ (with the flag on, each is CompressString of the
\* plain one), and every getCache returns the (value, found) it returns on
\* the map with the flag off.
C22_Transparent ==
    /\ DOMAIN cache = DOMAIN Plain
    /\ \A k \in DOMAIN cache :
          /\ cache[k].Expiration = Plain[k].Expiration
          /\ cache[k].Value = IF compression THEN CompressString(Plain[k].Value).s
                              ELSE Plain[k].Value
    /\ (res.ret # "none") =>
          /\ res.found = (Loaded(Plain, res.key) /\ ~(now > Plain[res.key].Expiration))
          /\ res.value = IF res.found THEN Plain[res.key].Value ELSE << >>

\* with the flag on, a getCache has returned "a" from an entry whose stored
\* string is not "a"
C22_Witness ==
    /\ compression
    /\ res.found
    /\ res.value = ValA
    /\ Loaded(cache, res.key)
    /\ cache[res.key].Value # ValA
    /\ Plain[res.key].Value = ValA

\* C25: every bucket in the registry holds at least no token and at most
\* its capacity, in what it recorded at its last Allow and in what it holds
\* now.
C25_WithinCapacity ==
    \A id \in DOMAIN ips :
        /\ 0 <= buckets[ips[id]].tokens
        /\ buckets[ips[id]].tokens <= buckets[ips[id]].b * TicksPerSecond
        /\ 0 <= Tokens(buckets[ips[id]], now)
        /\ Tokens(buckets[ips[id]], now) <= buckets[ips[id]].b * TicksPerSecond

\* one bucket has just been emptied by an admitted call, another was emptied
\* before and has refilled to its capacity since
C25_Witness ==
    \E x \in DOMAIN ips, y \in DOMAIN ips :
        /\ x # y
        /\ buckets[ips[x]].tokens = 0
        /\ buckets[ips[x]].last = now
        /\ buckets[ips[x]].row > 0
        /\ ~buckets[ips[x]].denied
        /\ buckets[ips[y]].tokens = 0
        /\ buckets[ips[y]].last < now
        /\ Tokens(buckets[ips[y]], now) = buckets[ips[y]].b * TicksPerSecond

\* C26: buckets are independent and permanent: an identity in the registry
\* stays in it with the limiter it has, and the token count and the instant
\* of the last refill of its bucket change only in the Allow of a request
\* from that identity: no GetLimiter, and no Allow of another identity's
\* request, touches them.
C26_Independent ==
    [][\A id \in DOMAIN ips :
          /\ id \in DOMAIN ips'
          /\ ips'[id] = ips[id]
          /\ ips[id] \in DOMAIN buckets'
          /\ (\/ buckets'[ips[id]].tokens # buckets[ips[id]].tokens
              \/ buckets'[ips[id]].last # buckets[ips[id]].last)
             => \E c \in Clients :
                   /\ Called(c)
                   /\ rid[c] = id
                   /\ rlim[c] = ips[id]]_vars

\* two identities are registered; the bucket of one was drawn on earlier and
\* has been left as it was while the other's has just been drawn on
C26_Witness ==
    \E x \in DOMAIN ips, y \in DOMAIN ips :
        /\ x # y
        /\ buckets[ips[x]].last = now
        /\ buckets[ips[x]].row > 0
        /\ buckets[ips[y]].last < buckets[ips[x]].last
        /\ buckets[ips[y]].row > 0
        /\ buckets[ips[y]].tokens < buckets[ips[y]].b * TicksPerSecond
        /\ \E c \in Clients : rid[c] = x /\ rok[c] # "none"

\* the requests of identity id passed on at the instants from s to e
RECURSIVE AdmittedIn(_, _, _)
AdmittedIn(id, s, e) ==
    IF s > e THEN 0 ELSE admitted[id][s] + AdmittedIn(id, s + 1, e)

\* C27: for each identity and each interval, from instant s to instant e,
\* of T = (e - s) / TicksPerSecond seconds, limitMiddleware passes on at most
\* burst + rate * T of the identity's requests.
C27_AdmissionBound ==
    \A id \in DOMAIN admitted :
        \A s \in 0..now, e \in 0..now :
            (s <= e) =>
                AdmittedIn(id, s, e) * TicksPerSecond
                    <= rl.b * TicksPerSecond + rl.r * (e - s)

\* two concurrent requests of one identity were both passed on at one
\* instant, which is the whole burst, and a later one of the same identity
\* once the bucket had a token again
C27_Witness ==
    \E id \in DOMAIN admitted :
        \E s \in 0..now :
            /\ s < now
            /\ rl.b = 2
            /\ admitted[id][s] = rl.b
            /\ admitted[id][now] > 0
            /\ \A c \in Clients : rid[c] = id /\ rok[c] = "true"

\* the upstream call c failed (transport error, status other than 200,
\* unparsable body) or yielded no result (no track id, nil lyrics)
Unsuccessful(c) ==
    ~c.reply.net \/ c.reply.status # 200 \/ ~c.reply.json \/ c.empty

\* what the getCache before the upstream call named returned
GotBefore(name) ==
    CASE name = "token" -> lgot.token
      [] name = "oauth" -> lgot.oauth
      [] name = "search" -> lgot.track
      [] name = "lyrics" -> lgot.lyrics

\* C21 as stated: a step of getLyrics whose upstream call fails or yields no
\* result performs no setCache and leaves the map unchanged, and a setCache
\* is performed only in a step whose upstream call succeeded, after the
\* getCache of that key missed.
C21_OnlyAfterSuccess ==
    [][/\ (lup'.call # "none" /\ Unsuccessful(lup')) =>
             (cache' = cache /\ lastSet' = lastSet)
       /\ (lastSet' # lastSet) =>
             /\ lup'.call # "none"
             /\ ~Unsuccessful(lup')
             /\ ~(GotBefore(lup'.call) \in { "none", "hit" })
      ]_vars

\* the entry setCache stored under k is still in the map and its TTL has not
\* elapsed
Memoized(k) ==
    /\ k \in DOMAIN lastSet
    /\ lastSet[k].done
    /\ ~deleted[k]
    /\ now < lastSet[k].t + lastSet[k].ttl

\* C23: a getLyrics whose getCache hit "lyrics:<trackID>" has made no lyrics
\* fetch, makes no setCache and answers from the cache; one whose getCache
\* hit "track:<query>" has made no track search (and no OAuth call); and a
\* request that finds the entries an earlier request stored, not evicted and
\* their TTLs not elapsed, hits both, so it calls neither fetchTrackID nor
\* fetchLyrics.
C23_Memoization ==
    [][/\ (lgot'.lyrics = "hit") =>
             /\ "lyrics" \notin lcalls'
             /\ lpc' = "idle"
             /\ lres'.status = 200 /\ lres'.from = "hit"
             /\ cache' = cache /\ lastSet' = lastSet
       /\ (lgot'.track = "hit") =>
             /\ "search" \notin lcalls'
             /\ "oauth" \notin lcalls'
       /\ (/\ lpc = "track" /\ lpc' # "track"
           /\ lreq.trackId = << >>
           /\ Memoized(CacheKey("track:", lreq.query))) =>
             /\ lgot'.track = "hit"
             /\ lpc' = "lyrics"
       /\ (/\ lpc = "lyrics" /\ lpc' # "lyrics"
           /\ Memoized(CacheKey("lyrics:", ltrack))) =>
             /\ lgot'.lyrics = "hit"
             /\ lpc' = "idle"
      ]_vars

\* a request by song name answered from the cache after an earlier request
\* went upstream for the track id and the lyrics: no search, no lyrics fetch
C23_Witness ==
    /\ lpc = "idle"
    /\ lreq.query = QueryQ
    /\ lgot.track = "hit" /\ lgot.lyrics = "hit"
    /\ lcalls \cap { "oauth", "search", "lyrics" } = {}
    /\ lres.status = 200 /\ lres.from = "hit"
    /\ lfill.from = "miss"
    /\ lastSet[CacheKey("track:", QueryQ)].done

\* C30: the response of getLyrics on a lyrics-cache hit carries the trackId,
\* lyrics, isRtlLanguage and language of the response of the cache miss that
\* stored the entry.
C30_HitEqualsMiss ==
    (lres.from = "hit") =>
        /\ lfill.from = "miss"
        /\ lres.trackId = lfill.trackId
        /\ lres.lyrics = lfill.lyrics
        /\ lres.isRtlLanguage = lfill.isRtlLanguage
        /\ lres.language = lfill.language

\* a hit on a compressed entry of right-to-left lyrics with a line
C30_Witness ==
    /\ compression
    /\ lres.status = 200 /\ lres.from = "hit"
    /\ lres.trackId = TrackT
    /\ lres.lyrics = JLines(OneLine)
    /\ lres.isRtlLanguage = JBool(TRUE)
    /\ lres.language = JString("ar")
    /\ lfill = [lres EXCEPT !.from = "miss"]

\* C31 as stated: the entry getValidAccessToken stores expires no later than
\* the instant the token endpoint declared, and a getCache(TokenKey) that
\* returns the token is not made after that instant.
C31_NeverOutlives ==
    /\ (lastSet[TokenKey].done /\ Loaded(cache, TokenKey)) =>
          cache[TokenKey].Expiration <= StampInstant(tdecl)
    /\ (res.key = TokenKey /\ res.found) => now <= StampInstant(tdecl)

\* C32: a dump request is given the contents of the cache if and only if its
\* Authorization header equals the configured CacheAccessToken: a Range runs
\* and a 200 response with the dump is written only for such a request, and
\* such a request is never answered 401; a request without the header
\* counts as one with the empty string, so it is authorized when no token is
\* configured.
C32_ExactToken ==
    /\ (dpc = "range") => dcred = cacheAccessToken
    /\ (dres.status # 0) =>
          /\ dres.status \in { 200, 401 }
          /\ (dres.status = 200) <=> (dcred = cacheAccessToken)
          /\ (dres.status = 200) => dres.Cache = dcache
          /\ (dres.status = 401) => dres = Unauthorized

\* no token configured, no header sent: the dump is returned, with an entry
C32_Witness ==
    /\ cacheAccessToken = ""
    /\ dcred = ""
    /\ dpc = "idle"
    /\ dres.status = 200
    /\ DOMAIN dres.Cache # {}

\* c holds the limiter limitMiddleware got for its request
Holds(c) == rpc[c] \in { "allow", "next" } \/ (rpc[c] = "idle" /\ rok[c] # "none")

\* C33: the limiter of a request is that of its whole RemoteAddr: two
\* requests hold the same bucket exactly when their RemoteAddr strings are
\* equal, two source ports of one host included, and the bucket a request
\* holds is changed only by the Allow of a request with the same RemoteAddr.
C33_FullRemoteAddr ==
    [][/\ \A c, d \in Clients :
             (Holds(c)' /\ Holds(d)') =>
                 ((rid'[c] = rid'[d]) <=> (rlim'[c] = rlim'[d]))
       /\ \A d \in Clients :
             (/\ Holds(d) /\ Holds(d)'
              /\ buckets'[rlim[d]] # buckets[rlim[d]]) =>
                 \E c \in Clients : Called(c) /\ rid[c] = rid[d]
      ]_vars

\* two requests from two source ports of one host, both let through in the
\* same instant although a bucket holds one token
C33_Witness ==
    /\ rl.b = 1
    /\ now = 0
    /\ rok["c1"] = "true" /\ rok["c2"] = "true"
    /\ rid["c1"] # rid["c2"]
    /\ HostOf[rid["c1"]] = HostOf[rid["c2"]]
    /\ rlim["c1"] # rlim["c2"]

=============================================================================
